---- MODULE Spec2Model ----
(***************************************************************************)
(* Streaming fraud-analysis pipeline of harmony-engine.                    *)
(*                                                                         *)
(* FraudAnalysisPipeline instances drive four module-level singletons      *)
(* (contextTracker, speakerDiarization, contextualMetadataFeed,            *)
(* audioFeatureExtractor) and the stateless textFeatureExtractor.          *)
(*                                                                         *)
(* Numbers.  A JavaScript number that the code keeps in [0,1] is held in   *)
(* thousandths (0.35 is 350); products and quotients truncate.  NaN is a   *)
(* value of its own that every arithmetic operator propagates and every    *)
(* comparison rejects, as IEEE-754 does; -Infinity is a number below every *)
(* other.                                                                  *)
(*                                                                         *)
(* Inputs.  An audio buffer is given by what the extractors measure on it  *)
(* (frame statistics, spectrum bands, crossing and silence ratios); the    *)
(* measurements of the empty, the too-short and the all-zero buffer are    *)
(* the ones the code computes for them.  A transcript is given by the      *)
(* matches of the code's regular expressions and word lists on its text.   *)
(***************************************************************************)
EXTENDS Integers, Sequences, FiniteSets, TLC

(* ------------------------------ bounds -------------------------------- *)
\* chunks fed to the pipelines in one behaviour
MaxChunks == 2
\* clock ticks of TickMs each that a behaviour may take
MaxTicks == 1

(* ------------------------------ numbers ------------------------------- *)
NaN == -999999999
NegInf == -99999999
IsNaN(x) == x = NaN

Add(a, b) == IF IsNaN(a) \/ IsNaN(b) THEN NaN ELSE a + b
Sub(a, b) == IF IsNaN(a) \/ IsNaN(b) THEN NaN ELSE a - b
\* a * b where b is in thousandths
Mul(a, b) == IF IsNaN(a) \/ IsNaN(b) THEN NaN ELSE (a * b) \div 1000
\* a / b in thousandths; 0/0 is NaN, x/0 is not used by the code paths modelled
Div(a, b) ==
  IF IsNaN(a) \/ IsNaN(b) THEN NaN
  ELSE IF b = 0 THEN NaN
  ELSE (a * 1000) \div b
\* a / n for a plain count n
DivN(a, n) == IF IsNaN(a) \/ n = 0 THEN NaN ELSE a \div n
\* Math.min / Math.max: NaN if either argument is NaN
MathMin(a, b) == IF IsNaN(a) \/ IsNaN(b) THEN NaN ELSE IF a < b THEN a ELSE b
MathMax(a, b) == IF IsNaN(a) \/ IsNaN(b) THEN NaN ELSE IF a > b THEN a ELSE b
\* comparisons: false when either side is NaN
Gt(a, b) == ~IsNaN(a) /\ ~IsNaN(b) /\ a > b
Ge(a, b) == ~IsNaN(a) /\ ~IsNaN(b) /\ a >= b
Lt(a, b) == ~IsNaN(a) /\ ~IsNaN(b) /\ a < b
Abs(a) == IF IsNaN(a) THEN NaN ELSE IF a < 0 THEN -a ELSE a
\* Math.sqrt of a sum of squares of thousandths, itself in thousandths: the
\* integer root, found by bisection between lo and hi
RECURSIVE RootBetween(_, _, _)
RootBetween(n, lo, hi) ==
  IF hi - lo <= 1 THEN lo
  ELSE LET mid == (lo + hi) \div 2
       IN IF mid * mid <= n THEN RootBetween(n, mid, hi) ELSE RootBetween(n, lo, mid)

ISqrt(n) == RootBetween(n, 0, 2048)

\* an optional value: <<>> is null/undefined, <<v>> is v
None == <<>>
Some(v) == <<v>>
IsSome(o) == Len(o) = 1
Val(o) == o[1]

RECURSIVE SumSeq(_)
SumSeq(s) == IF s = <<>> THEN 0 ELSE Add(Head(s), SumSeq(Tail(s)))

Last(s, n) == IF Len(s) <= n THEN s ELSE SubSeq(s, Len(s) - n + 1, Len(s))

(* ---------------------------- audio buffers --------------------------- *)
\* What the code measures on a buffer.  len: samples.  pitchCount, frames:
\* lengths of the pitch contour and of the 512-sample frame-energy list.
\* Hz for pitch, centroid and rolloff; dB for dynRange and hnr; thousandths
\* for the rest.  spectrum: magnitude per band (low, mid, high), empty for
\* the empty buffer.
SampleRate == 24000

\* new Float32Array(0)
EmptyBuf ==
  [name |-> "empty", len |-> 0,
   pitchCount |-> 0, pitchMean |-> 0, pitchStd |-> 0, pitchRange |-> 0, pitchSlope |-> 0,
   frames |-> 0, eMean |-> 0, eStd |-> 0, spikes |-> 0, dynRange |-> 0,
   jitter |-> 0, shimmer |-> 0, hnr |-> NaN,
   spectrum |-> <<>>, centroid |-> 0, flatness |-> 0, rolloff |-> 0, entropy |-> 0,
   zcr |-> NaN, pauseRatio |-> 0, peaks |-> 0,
   noiseFloor |-> NaN, rms |-> NaN, maxAmp |-> NegInf, avgAmp |-> NaN,
   silence05 |-> NaN, silence01 |-> NaN, clipping |-> FALSE]

\* four samples of 0.5: shorter than every analysis frame
ShortBuf ==
  [name |-> "short", len |-> 4,
   pitchCount |-> 0, pitchMean |-> 0, pitchStd |-> 0, pitchRange |-> 0, pitchSlope |-> 0,
   frames |-> 0, eMean |-> 0, eStd |-> 0, spikes |-> 0, dynRange |-> 0,
   jitter |-> 0, shimmer |-> 0, hnr |-> NaN,
   spectrum |-> <<500, 0, 0>>, centroid |-> 0, flatness |-> 0, rolloff |-> 0, entropy |-> 0,
   zcr |-> 0, pauseRatio |-> 0, peaks |-> 0,
   noiseFloor |-> NaN, rms |-> 500, maxAmp |-> 500, avgAmp |-> 500,
   silence05 |-> 0, silence01 |-> 0, clipping |-> FALSE]

\* 2.5 s of zeros
SilenceBuf ==
  [name |-> "silence", len |-> 60000,
   pitchCount |-> 0, pitchMean |-> 0, pitchStd |-> 0, pitchRange |-> 0, pitchSlope |-> 0,
   frames |-> 117, eMean |-> 0, eStd |-> 0, spikes |-> 0, dynRange |-> NegInf,
   jitter |-> 0, shimmer |-> 0, hnr |-> NegInf,
   spectrum |-> <<0, 0, 0>>, centroid |-> 0, flatness |-> 0, rolloff |-> 0, entropy |-> 0,
   zcr |-> 0, pauseRatio |-> 1000, peaks |-> 0,
   noiseFloor |-> 0, rms |-> 0, maxAmp |-> 0, avgAmp |-> 0,
   silence05 |-> 1000, silence01 |-> 1000, clipping |-> FALSE]

\* 2.5 s of quiet, steady speech
CalmBuf ==
  [name |-> "calm", len |-> 60000,
   pitchCount |-> 200, pitchMean |-> 150, pitchStd |-> 10, pitchRange |-> 30, pitchSlope |-> 0,
   frames |-> 117, eMean |-> 200, eStd |-> 40, spikes |-> 2, dynRange |-> 20,
   jitter |-> 10, shimmer |-> 30, hnr |-> 15,
   spectrum |-> <<300, 100, 20>>, centroid |-> 900, flatness |-> 200, rolloff |-> 3000,
   entropy |-> 500,
   zcr |-> 50, pauseRatio |-> 200, peaks |-> 8,
   noiseFloor |-> 10, rms |-> 200, maxAmp |-> 400, avgAmp |-> 150,
   silence05 |-> 200, silence01 |-> 100, clipping |-> FALSE]

\* 2.5 s of loud, fast, clipped speech over call-centre noise
StressedBuf ==
  [name |-> "stressed", len |-> 60000,
   pitchCount |-> 200, pitchMean |-> 260, pitchStd |-> 60, pitchRange |-> 150, pitchSlope |-> 10,
   frames |-> 117, eMean |-> 450, eStd |-> 180, spikes |-> 8, dynRange |-> 45,
   jitter |-> 50, shimmer |-> 100, hnr |-> 2,
   spectrum |-> <<400, 300, 500>>, centroid |-> 4000, flatness |-> 700, rolloff |-> 9000,
   entropy |-> 900,
   zcr |-> 350, pauseRatio |-> 100, peaks |-> 18,
   noiseFloor |-> 150, rms |-> 450, maxAmp |-> 1000, avgAmp |-> 300,
   silence05 |-> 400, silence01 |-> 100, clipping |-> TRUE]

AudioInputs == {EmptyBuf, ShortBuf, SilenceBuf, CalmBuf, StressedBuf}

(* ------------------------ AudioFeatureExtractor ----------------------- *)
\* normalize(value, min, max): Math.max(0, Math.min(1, (value-min)/(max-min)))
normalize(value, min, max) ==
  IF IsNaN(value) THEN NaN
  ELSE IF value = NegInf THEN 0
  ELSE MathMax(0, MathMin(1000, ((value - min) * 1000) \div (max - min)))

extractPitchFeatures(a) ==
  IF a.pitchCount = 0
  THEN [pitchMean |-> 0, pitchVariance |-> 0, pitchRange |-> 0, pitchSlope |-> 0]
  ELSE [pitchMean |-> normalize(a.pitchMean, 50, 400),
        pitchVariance |-> normalize(a.pitchStd, 0, 100),
        pitchRange |-> normalize(a.pitchRange, 0, 200),
        pitchSlope |-> normalize(a.pitchSlope, -50, 50)]

extractEnergyFeatures(a) ==
  IF a.frames = 0
  THEN [energyMean |-> 0, energyVariance |-> 0, energySpikes |-> 0,
        energyDynamicRange |-> 0]
  ELSE [energyMean |-> normalize(a.eMean, 0, 500),
        energyVariance |-> normalize(a.eStd, 0, 200),
        energySpikes |-> MathMin(1000, a.spikes * 100),
        energyDynamicRange |-> normalize(a.dynRange, 0, 60)]

\* Math.max(...autocorr.slice(20)) of at most 20 samples is -Infinity, and
\* 10 * log10(-Infinity / Infinity) is NaN
estimateHNR(a) == IF a.len <= 20 THEN NaN ELSE a.hnr

StressFeatures(nj, ns, nh) ==
  [voiceStress |->
     MathMin(1000, Add(Add(Mul(nj, 300), Mul(ns, 300)), Mul(Sub(1000, nh), 400))),
   jitter |-> nj, shimmer |-> ns, harmonicToNoiseRatio |-> nh]

extractStressFeatures(a) ==
  StressFeatures(normalize(IF a.pitchCount > 1 THEN a.jitter ELSE 0, 0, 50),
                 normalize(IF a.frames > 1 THEN a.shimmer ELSE 0, 0, 100),
                 normalize(estimateHNR(a), 0, 20))

\* sum over the bands of the squared positive differences; a band the
\* previous spectrum lacks is undefined there and adds nothing
RECURSIVE FluxSum(_, _, _)
FluxSum(spectrum, prev, i) ==
  IF i > Len(spectrum) THEN 0
  ELSE LET diff == IF i <= Len(prev) THEN spectrum[i] - prev[i] ELSE 0
       IN (IF diff > 0 THEN diff * diff ELSE 0) + FluxSum(spectrum, prev, i + 1)

\* previousSpectrum: None or Some(spectrum)
spectralFlux(a, previousSpectrum) ==
  IF IsSome(previousSpectrum)
  THEN ISqrt(FluxSum(a.spectrum, Val(previousSpectrum), 1))
  ELSE 0

extractSpectralFeatures(a, previousSpectrum) ==
  [spectralCentroid |-> normalize(a.centroid, 0, SampleRate \div 4),
   spectralFlatness |-> MathMin(1000, a.flatness),
   spectralRolloff |-> normalize(a.rolloff, 0, SampleRate \div 2),
   spectralFlux |-> normalize(spectralFlux(a, previousSpectrum), 0, 10000)]

TemporalFeatures(a, speechRate) ==
  [speechRate |-> normalize(speechRate, 0, 8000),
   articulationRate |->
     normalize(IF a.pauseRatio < 1000
               THEN (speechRate * 1000) \div (1000 - a.pauseRatio) ELSE 0, 0, 10000),
   pauseRatio |-> MathMin(1000, a.pauseRatio),
   zeroCrossingRate |-> normalize(a.zcr, 0, 300)]

extractTemporalFeatures(a) ==
  TemporalFeatures(a, IF a.len > 0 THEN (a.peaks * SampleRate * 1000) \div a.len ELSE 0)

Band(a, i) == IF i <= Len(a.spectrum) THEN a.spectrum[i] ELSE 0

NoiseTypeOf(lowFreqEnergy, highFreqEnergy, totalEnergy, entropy) ==
  IF totalEnergy < 10 THEN "clean"
  ELSE IF entropy > 800 /\ (highFreqEnergy * 1000) \div totalEnergy > 300 THEN "call_center"
  ELSE IF (lowFreqEnergy * 1000) \div totalEnergy > 600 /\ entropy < 500 THEN "outdoor"
  ELSE IF entropy > 600 /\ (lowFreqEnergy * 1000) \div totalEnergy < 400 THEN "office"
  ELSE IF entropy < 300 THEN "clean"
  ELSE "unknown"

classifyNoiseType(a, entropy) ==
  NoiseTypeOf(Band(a, 1), Band(a, 3), Band(a, 1) + Band(a, 2) + Band(a, 3), entropy)

extractBackgroundFeatures(a) ==
  [backgroundEntropy |-> a.entropy,
   backgroundNoiseType |-> classifyNoiseType(a, a.entropy)]

calculateOverallStress(stressFeatures, energyFeatures, pitchFeatures) ==
  MathMin(1000,
    Add(Add(Mul(stressFeatures.voiceStress, 400),
            Mul(energyFeatures.energyVariance, 200)),
        Add(Mul(energyFeatures.energySpikes, 150),
            Mul(pitchFeatures.pitchVariance, 250))))

calculateAudioQuality(backgroundFeatures) ==
  Add(Mul(IF backgroundFeatures.backgroundNoiseType = "clean" THEN 1000 ELSE 700, 500),
      Mul(Sub(1000, Mul(backgroundFeatures.backgroundEntropy, 500)), 500))

\* the record that extract returns: the six feature groups spread, and the
\* two composite scores
AudioFeatures(pitchFeatures, energyFeatures, stressFeatures, spectralFeatures, temporalFeatures, backgroundFeatures) ==
  [pitchMean |-> pitchFeatures.pitchMean,
   pitchVariance |-> pitchFeatures.pitchVariance,
   pitchRange |-> pitchFeatures.pitchRange,
   pitchSlope |-> pitchFeatures.pitchSlope,
   energyMean |-> energyFeatures.energyMean,
   energyVariance |-> energyFeatures.energyVariance,
   energySpikes |-> energyFeatures.energySpikes,
   energyDynamicRange |-> energyFeatures.energyDynamicRange,
   voiceStress |-> stressFeatures.voiceStress,
   jitter |-> stressFeatures.jitter,
   shimmer |-> stressFeatures.shimmer,
   harmonicToNoiseRatio |-> stressFeatures.harmonicToNoiseRatio,
   spectralCentroid |-> spectralFeatures.spectralCentroid,
   spectralFlatness |-> spectralFeatures.spectralFlatness,
   spectralRolloff |-> spectralFeatures.spectralRolloff,
   spectralFlux |-> spectralFeatures.spectralFlux,
   speechRate |-> temporalFeatures.speechRate,
   articulationRate |-> temporalFeatures.articulationRate,
   pauseRatio |-> temporalFeatures.pauseRatio,
   zeroCrossingRate |-> temporalFeatures.zeroCrossingRate,
   backgroundEntropy |-> backgroundFeatures.backgroundEntropy,
   backgroundNoiseType |-> backgroundFeatures.backgroundNoiseType,
   overallStressScore |->
     calculateOverallStress(stressFeatures, energyFeatures, pitchFeatures),
   audioQualityScore |-> calculateAudioQuality(backgroundFeatures)]

\* AudioFeatureExtractor.extract: the feature record of one buffer
extract(a, previousSpectrum) ==
  AudioFeatures(extractPitchFeatures(a), extractEnergyFeatures(a),
                extractStressFeatures(a), extractSpectralFeatures(a, previousSpectrum),
                extractTemporalFeatures(a), extractBackgroundFeatures(a))

(* ----------------------------- transcripts ---------------------------- *)
\* What the code's patterns and word lists find in a text.  words: tokens
\* of tokenize; the ...Matches: patterns of a library that match; pii...:
\* patterns of a PII subtype that test true; cyberMatches: global matches
\* over the harassment library; bigramMax, trigramMax: best table score;
\* topicMatches: categories of detectTopic whose pattern tests true;
\* topicKeywords: words in the keyword list of the detected topic;
\* sentenceWords: tokens of each non-blank sentence; d...: the four keyword
\* tests of the diarization engine.
NoTranscript ==
  [name |-> "undefined", present |-> FALSE, words |-> 0,
   authorityMatches |-> 0, authorityPhrases |-> <<>>, urgencyMatches |-> 0,
   threatMatches |-> 0,
   piiSsn |-> 0, piiFinancial |-> 0, piiIdentity |-> 0, piiAccess |-> 0,
   imperativeCount |-> 0, cyberMatches |-> 0,
   positiveCount |-> 0, negativeCount |-> 0, subjectiveCount |-> 0,
   sentences |-> 0, questions |-> 0, negationCount |-> 0,
   bigramMax |-> 0, trigramMax |-> 0,
   topicMatches |-> {}, topicKeywords |-> 0, sentenceWords |-> <<>>,
   dUrgency |-> FALSE, dFinancial |-> FALSE, dAuthority |-> FALSE, dPii |-> FALSE]

\* "Hi, how are you?"
GreetingText ==
  [name |-> "greeting", present |-> TRUE, words |-> 4,
   authorityMatches |-> 0, authorityPhrases |-> <<>>, urgencyMatches |-> 0,
   threatMatches |-> 0,
   piiSsn |-> 0, piiFinancial |-> 0, piiIdentity |-> 0, piiAccess |-> 0,
   imperativeCount |-> 0, cyberMatches |-> 0,
   positiveCount |-> 0, negativeCount |-> 0, subjectiveCount |-> 0,
   sentences |-> 1, questions |-> 0, negationCount |-> 0,
   bigramMax |-> 0, trigramMax |-> 0,
   topicMatches |-> {}, topicKeywords |-> 0, sentenceWords |-> <<4>>,
   dUrgency |-> FALSE, dFinancial |-> FALSE, dAuthority |-> FALSE, dPii |-> FALSE]

\* "This is the IRS. Pay immediately with a gift card or face arrest."
IrsText ==
  [name |-> "irs", present |-> TRUE, words |-> 13,
   authorityMatches |-> 1, authorityPhrases |-> <<"This is the IRS">>,
   urgencyMatches |-> 1, threatMatches |-> 1,
   piiSsn |-> 0, piiFinancial |-> 0, piiIdentity |-> 0, piiAccess |-> 0,
   imperativeCount |-> 1, cyberMatches |-> 0,
   positiveCount |-> 0, negativeCount |-> 0, subjectiveCount |-> 0,
   sentences |-> 2, questions |-> 0, negationCount |-> 0,
   bigramMax |-> 950, trigramMax |-> 0,
   topicMatches |-> {"urgency", "authority"}, topicKeywords |-> 1,
   sentenceWords |-> <<4, 9>>,
   dUrgency |-> TRUE, dFinancial |-> FALSE, dAuthority |-> TRUE, dPii |-> FALSE]

\* "Please verify your bank account number and password now."
BankText ==
  [name |-> "bank", present |-> TRUE, words |-> 9,
   authorityMatches |-> 0, authorityPhrases |-> <<>>, urgencyMatches |-> 0,
   threatMatches |-> 0,
   piiSsn |-> 0, piiFinancial |-> 2, piiIdentity |-> 0, piiAccess |-> 1,
   imperativeCount |-> 1, cyberMatches |-> 0,
   positiveCount |-> 0, negativeCount |-> 0, subjectiveCount |-> 0,
   sentences |-> 1, questions |-> 0, negationCount |-> 1,
   bigramMax |-> 0, trigramMax |-> 0,
   topicMatches |-> {"financial", "urgency", "technical"}, topicKeywords |-> 2,
   sentenceWords |-> <<9>>,
   dUrgency |-> TRUE, dFinancial |-> TRUE, dAuthority |-> FALSE, dPii |-> TRUE]

\* "You are so stupid. I hate you. Go kill yourself."
AbuseText ==
  [name |-> "abuse", present |-> TRUE, words |-> 10,
   authorityMatches |-> 0, authorityPhrases |-> <<>>, urgencyMatches |-> 0,
   threatMatches |-> 0,
   piiSsn |-> 0, piiFinancial |-> 0, piiIdentity |-> 0, piiAccess |-> 0,
   imperativeCount |-> 1, cyberMatches |-> 5,
   positiveCount |-> 0, negativeCount |-> 0, subjectiveCount |-> 0,
   sentences |-> 3, questions |-> 0, negationCount |-> 0,
   bigramMax |-> 0, trigramMax |-> 0,
   topicMatches |-> {"identity"}, topicKeywords |-> 0,
   sentenceWords |-> <<4, 3, 3>>,
   dUrgency |-> FALSE, dFinancial |-> FALSE, dAuthority |-> FALSE, dPii |-> FALSE]

Transcripts == {NoTranscript, GreetingText, IrsText, BankText, AbuseText}

(* ------------------------- TextFeatureExtractor ----------------------- *)
extractAuthorityFeatures(t) == MathMin(1000, t.authorityMatches * 300)
extractUrgencyFeatures(t) == MathMin(1000, t.urgencyMatches * 250)
extractThreatFeatures(t) ==
  IF t.words > 0 THEN MathMin(1000, (t.threatMatches * 3 * 1000) \div t.words) ELSE 0

\* 0.25 for every pattern that tests true, two patterns per subtype
extractPIIFeatures(t) ==
  [score |-> MathMin(1000, (t.piiSsn + t.piiFinancial + t.piiIdentity + t.piiAccess) * 250),
   types |-> (IF t.piiSsn > 0 THEN {"ssn"} ELSE {})
             \cup (IF t.piiFinancial > 0 THEN {"financial"} ELSE {})
             \cup (IF t.piiIdentity > 0 THEN {"identity"} ELSE {})
             \cup (IF t.piiAccess > 0 THEN {"access"} ELSE {})]

extractImperativeFeatures(t) ==
  IF t.words > 0 THEN (t.imperativeCount * 1000) \div t.words ELSE 0
extractCyberbullyingFeatures(t) == MathMin(1000, t.cyberMatches * 300)

calculateSentiment(t) ==
  LET total == t.positiveCount + t.negativeCount
  IN IF total = 0 THEN 0 ELSE ((t.positiveCount - t.negativeCount) * 1000) \div total
calculateSubjectivity(t) == MathMin(1000, t.subjectiveCount * 100)
calculateQuestionFrequency(t) ==
  IF t.sentences = 0 THEN 0 ELSE (t.questions * 1000) \div t.sentences
calculateNegationFrequency(t) ==
  IF t.words > 0 THEN (t.negationCount * 1000) \div t.words ELSE 0

\* a score that takes the harassment floor before the boost for three signals
BoostedScoreFloorFirst(f, score, highRiskCount) ==
  MathMin(1000,
    IF highRiskCount >= 3
    THEN MathMin(1000, ((IF f.cyberbullyingScore > 500 THEN MathMax(score, 700) ELSE score)
                        * 1200) \div 1000)
    ELSE IF f.cyberbullyingScore > 500 THEN MathMax(score, 700) ELSE score)

\* the boosts for two and for three high-risk signals, the harassment floor
\* and the final cap
BoostedScore(f, score, highRiskCount) ==
  MathMin(1000,
    IF f.cyberbullyingScore > 500
    THEN MathMax(IF highRiskCount >= 3 THEN MathMin(1000, (score * 1200) \div 1000)
                 ELSE score, 700)
    ELSE IF highRiskCount >= 3 THEN MathMin(1000, (score * 1200) \div 1000) ELSE score)

HighRiskCount(f) ==
    (IF f.authorityScore > 500 THEN 1 ELSE 0)
  + (IF f.urgencyScore > 500 THEN 1 ELSE 0)
  + (IF f.piiRequestScore > 500 THEN 1 ELSE 0)
  + (IF f.bigramThreatScore > 700 THEN 1 ELSE 0)
  + (IF f.cyberbullyingScore > 300 THEN 1 ELSE 0)

WeightedScore(f) ==
  (f.authorityScore * 120 + f.urgencyScore * 120 + f.threatDensity * 150
   + f.piiRequestScore * 200 + f.imperativeFrequency * 50
   + f.bigramThreatScore * 80 + f.trigramPatternScore * 80
   + f.cyberbullyingScore * 200) \div 1000

\* weighted sum, boosts for several high-risk signals, harassment floor
calculateOverallFraudScore(f) ==
  BoostedScore(f,
               IF HighRiskCount(f) >= 2
               THEN MathMin(1000, (WeightedScore(f) * 1300) \div 1000)
               ELSE WeightedScore(f),
               HighRiskCount(f))

\* the record that extract returns
TextFeatures(t, pii, scores) ==
  [authorityScore |-> scores.authorityScore,
   authorityPhrases |-> t.authorityPhrases,
   urgencyScore |-> scores.urgencyScore,
   threatDensity |-> scores.threatDensity,
   piiRequestScore |-> scores.piiRequestScore,
   piiTypes |-> pii.types,
   imperativeFrequency |-> scores.imperativeFrequency,
   cyberbullyingScore |-> scores.cyberbullyingScore,
   sentimentPolarity |-> calculateSentiment(t),
   subjectivityScore |-> calculateSubjectivity(t),
   questionFrequency |-> calculateQuestionFrequency(t),
   negationFrequency |-> calculateNegationFrequency(t),
   bigramThreatScore |-> scores.bigramThreatScore,
   trigramPatternScore |-> scores.trigramPatternScore,
   textFraudScore |-> calculateOverallFraudScore(scores)]

\* TextFeatureExtractor.extract
extractText(t) ==
  TextFeatures(t, extractPIIFeatures(t),
               [authorityScore |-> extractAuthorityFeatures(t),
                urgencyScore |-> extractUrgencyFeatures(t),
                threatDensity |-> extractThreatFeatures(t),
                piiRequestScore |-> extractPIIFeatures(t).score,
                imperativeFrequency |-> extractImperativeFeatures(t),
                bigramThreatScore |-> t.bigramMax,
                trigramPatternScore |-> t.trigramMax,
                cyberbullyingScore |-> extractCyberbullyingFeatures(t)])

(* ----------------------- SpeakerDiarizationEngine ---------------------- *)
\* Math.random() in extractSpeakerFeatures: the pitch estimate is
\* 100 + Math.random() * 200, any value of [100, 300)
PitchDraws == {100, 299}

\* speakers: the Map in insertion order, speaker_n at index n;
\* currentSpeaker: 0 is null.  (turnHistory is only written by recordTurn,
\* which nothing calls; voiceQuality and pitchRange are never read.)
FreshDiarization == [speakers |-> <<>>, currentSpeaker |-> 0, lastSegmentEnd |-> 0]

extractSpeakerFeatures(a, pitchEstimate) ==
  [averagePitch |-> pitchEstimate,
   averageEnergy |-> MathMin(1000, Mul(a.avgAmp, 10000)),
   speechRate |-> MathMin(8000, Mul(a.zcr, 100000))]

RECURSIVE SumField(_, _)
SumField(segments, field) ==
  IF segments = <<>> THEN 0
  ELSE Add(Head(segments)[field], SumField(Tail(segments), field))

getAverageFeatures(segments) ==
  [averagePitch |-> DivN(SumField(segments, "averagePitch"), Len(segments)),
   averageEnergy |-> DivN(SumField(segments, "averageEnergy"), Len(segments)),
   speechRate |-> DivN(SumField(segments, "speechRate"), Len(segments))]

\* the weighted similarity of a segment's features to a profile's averages
Similarity(features, avgFeatures) ==
  Add(Add(Mul(Sub(1000, DivN(Mul(Abs(Sub(features.averagePitch, avgFeatures.averagePitch)),
                                 1000000), 200)), 400),
          Mul(Sub(1000, Abs(Sub(features.averageEnergy, avgFeatures.averageEnergy))), 300)),
      Mul(Sub(1000, DivN(Abs(Sub(features.speechRate, avgFeatures.speechRate)), 8)), 300))

calculateSimilarity(features, profile) ==
  IF Len(profile.segments) = 0 THEN 0
  ELSE Similarity(features, getAverageFeatures(profile.segments))

\* a match that needs a similarity above 0.5 only
BetterAboveHalf(before, n, score) ==
  IF Gt(score, before[2]) /\ Gt(score, 500) THEN <<n, score>> ELSE before

\* the forEach of identifySpeaker: <<bestMatch, bestScore>> after the
\* profiles 1..n, in insertion order
Better(before, n, score) ==
  IF Gt(score, before[2]) /\ Gt(score, 600) THEN <<n, score>> ELSE before

RECURSIVE BestMatch(_, _, _)
BestMatch(speakers, features, n) ==
  IF n = 0 THEN <<0, 0>>
  ELSE Better(BestMatch(speakers, features, n - 1), n,
              calculateSimilarity(features, speakers[n]))

createSpeakerProfile(speakerId) ==
  [id |-> speakerId, segments |-> <<>>, fraudProbability |-> 0,
   totalSpeakingTime |-> 0, turnCount |-> 0, avgConfidence |-> 700]

handleSpeakerChange(d, newSpeakerId) ==
  [d EXCEPT !.speakers =
              IF d.currentSpeaker # 0 /\ d.currentSpeaker # newSpeakerId
                 /\ newSpeakerId <= Len(d.speakers)
              THEN [@ EXCEPT ![newSpeakerId].turnCount = @ + 1]
              ELSE @,
            !.currentSpeaker = newSpeakerId]

\* <<engine state, resolved speaker id>> for the best match found (0: none)
Identified(d, bestMatch) ==
  IF bestMatch # 0
  THEN <<IF d.currentSpeaker # bestMatch THEN handleSpeakerChange(d, bestMatch) ELSE d,
         bestMatch>>
  ELSE <<handleSpeakerChange(
           [d EXCEPT !.speakers = Append(@, createSpeakerProfile(Len(d.speakers) + 1))],
           Len(d.speakers) + 1),
         Len(d.speakers) + 1>>

identifySpeaker(d, features) ==
  Identified(d, BestMatch(d.speakers, features, Len(d.speakers))[1])

calculateMatchConfidence(d, speakerId, features) ==
  IF Len(d.speakers[speakerId].segments) = 0 THEN 700
  ELSE MathMin(950, Add(600, Mul(calculateSimilarity(features, d.speakers[speakerId]), 350)))

analyzeFraudIndicators(t, features) ==
  MathMin(1000,
      (IF t.dUrgency THEN 200 ELSE 0) + (IF t.dFinancial THEN 150 ELSE 0)
    + (IF t.dAuthority THEN 250 ELSE 0) + (IF t.dPii THEN 300 ELSE 0)
    + (IF Gt(features.speechRate, 6000) THEN 100 ELSE 0)
    + (IF Gt(features.averageEnergy, 800) THEN 100 ELSE 0))

\* a moving average that weighs the old value and the new score equally
updateFraudProbabilityEvenly(fraudProbability, newScore) ==
  Add(Mul(fraudProbability, 500), Mul(newScore, 500))

\* the exponential moving average of updateFraudProbability
updateFraudProbability(fraudProbability, newScore) ==
  Add(Mul(fraudProbability, 700), Mul(newScore, 300))

\* the profile with the segment pushed, and the fraud probability moved when
\* there is a transcript
Pushed(profile, segments, segment, t) ==
  [profile EXCEPT
     !.segments = segments,
     !.totalSpeakingTime = @ + (segment.endTime - segment.startTime),
     !.avgConfidence = DivN(SumField(segments, "confidence"), Len(segments)),
     !.fraudProbability =
        IF t.present
        THEN updateFraudProbability(@, analyzeFraudIndicators(t, segment))
        ELSE @]

\* a profile that keeps its latest segment only
updateSpeakerProfileLatestOnly(d, speakerId, segment, t) ==
  [d EXCEPT !.speakers[speakerId] = Pushed(@, <<segment>>, segment, t)]

updateSpeakerProfile(d, speakerId, segment, t) ==
  [d EXCEPT !.speakers[speakerId] =
              Pushed(@, Append(@.segments, segment), segment, t)]

Segment(d1, speakerId, features, startTime, endTime) ==
  [speakerId |-> speakerId, startTime |-> startTime, endTime |-> endTime,
   confidence |-> calculateMatchConfidence(d1, speakerId, features),
   averagePitch |-> features.averagePitch,
   averageEnergy |-> features.averageEnergy,
   speechRate |-> features.speechRate]

Segmented(identified, features, startTime, endTime, t) ==
  <<[updateSpeakerProfile(identified[1], identified[2],
                          Segment(identified[1], identified[2], features,
                                  startTime, endTime), t)
       EXCEPT !.lastSegmentEnd = endTime],
    identified[2]>>

IdentifiedSegment(d, features, startTime, endTime, t) ==
  Segmented(identifySpeaker(d, features), features, startTime, endTime, t)

\* SpeakerDiarizationEngine.processSegment: <<engine state, speaker id>>
processSegment(d, a, startTime, endTime, t, pitchEstimate) ==
  IdentifiedSegment(d, extractSpeakerFeatures(a, pitchEstimate), startTime, endTime, t)

(* ---------------------------- ContextTracker -------------------------- *)
\* currentTopic: "none" is null.  Durations and times are milliseconds.
FreshContext(now) ==
  [topicHistory |-> <<>>, currentTopic |-> "none", emotionalProgression |-> <<>>,
   linguisticContinuity |-> 1000, turnCount |-> 0, totalDuration |-> 0,
   lastUpdateTime |-> now]

TopicOrder == <<"financial", "identity", "urgency", "authority", "technical",
                "prize_scam", "romance", "investment">>

RECURSIVE FirstTopic(_, _)
FirstTopic(t, i) ==
  IF i > Len(TopicOrder) THEN "none"
  ELSE IF TopicOrder[i] \in t.topicMatches THEN TopicOrder[i]
  ELSE FirstTopic(t, i + 1)

\* the last matching category instead of the first
detectTopicLastMatch(t) ==
  IF \E i \in 1..Len(TopicOrder) : TopicOrder[i] \in t.topicMatches
  THEN TopicOrder[CHOOSE i \in 1..Len(TopicOrder) :
                    /\ TopicOrder[i] \in t.topicMatches
                    /\ \A j \in (i + 1)..Len(TopicOrder) : TopicOrder[j] \notin t.topicMatches]
  ELSE "none"

detectTopic(t) == FirstTopic(t, 1)

calculateTopicConfidence(t) == MathMin(1000, (t.topicKeywords * 1000) \div 3)

RECURSIVE CoherenceSum(_)
CoherenceSum(sentenceWords) ==
  IF sentenceWords = <<>> THEN 0
  ELSE (IF Head(sentenceWords) >= 3 /\ Head(sentenceWords) <= 20 THEN 1000
        ELSE IF Head(sentenceWords) > 0 THEN 500 ELSE 0)
       + CoherenceSum(Tail(sentenceWords))

calculateLinguisticContinuity(t) ==
  IF Len(t.sentenceWords) = 0 THEN 500
  ELSE MathMin(1000, CoherenceSum(t.sentenceWords) \div Len(t.sentenceWords))

\* <<state, topic shift or None>> for the topic detected
Analyzed(c, t, timestamp, detectedTopic) ==
  IF detectedTopic # "none" /\ detectedTopic # c.currentTopic
  THEN <<[c EXCEPT !.topicHistory = Append(@, detectedTopic),
                   !.currentTopic = detectedTopic,
                   !.linguisticContinuity = calculateLinguisticContinuity(t)],
         Some([fromTopic |-> c.currentTopic, toTopic |-> detectedTopic,
               timestamp |-> timestamp, confidence |-> calculateTopicConfidence(t)])>>
  ELSE <<[c EXCEPT !.linguisticContinuity = calculateLinguisticContinuity(t)], None>>

analyzeTranscript(c, t, timestamp) == Analyzed(c, t, timestamp, detectTopic(t))

classifyEmotion(valence, arousal, stress) ==
  IF stress > 700 THEN "stressed"
  ELSE IF valence < -300 /\ arousal > 600 THEN "angry"
  ELSE IF valence < -300 /\ arousal < 400 THEN "fearful"
  ELSE IF arousal > 600 /\ stress > 400 THEN "anxious"
  ELSE IF valence > 300 /\ arousal > 500 THEN "confident"
  ELSE "neutral"

\* x || 0: NaN and 0 are falsy
OrZero(x) == IF IsNaN(x) THEN 0 ELSE x

EmotionalState(timestamp, valence, arousal, dominance, voiceStress) ==
  [timestamp |-> timestamp, valence |-> valence, arousal |-> arousal,
   dominance |-> dominance, label |-> classifyEmotion(valence, arousal, voiceStress)]

EmotionalStateOf(f, timestamp) ==
  EmotionalState(timestamp,
    MathMax(-1000, MathMin(1000, (500 - OrZero(f.voiceStress)) * 2)),
    MathMin(1000, (OrZero(f.energyLevel) + OrZero(f.pitchVariance) + OrZero(f.speechRate))
                  \div 3),
    MathMin(1000, (OrZero(f.energyLevel) * 600 + (1000 - OrZero(f.voiceStress)) * 400)
                  \div 1000),
    OrZero(f.voiceStress))

EmotionHistory == 50

\* a cap that drops the entry just pushed
CappedKeepingOldest(pushed, cap) ==
  IF Len(pushed) > cap THEN SubSeq(pushed, 1, cap) ELSE pushed

\* push, then shift() when the list is longer than the cap
Capped(pushed, cap) == IF Len(pushed) > cap THEN Tail(pushed) ELSE pushed

updateEmotionalState(c, f, timestamp) ==
  [c EXCEPT !.emotionalProgression =
              Capped(Append(@, EmotionalStateOf(f, timestamp)), EmotionHistory)]

\* the emotional state pushed when audio features came with the chunk
Tracked(analyzed, f, now) ==
  <<IF IsSome(f) THEN updateEmotionalState(analyzed[1], Val(f), now) ELSE analyzed[1],
    analyzed[2]>>

\* ContextTracker.processChunk; f: None or Some(the four audio features).
\* <<state, topic shift or None>>
contextProcessChunk(c, t, duration, f, now) ==
  Tracked(IF t.present
          THEN analyzeTranscript([c EXCEPT !.totalDuration = @ + duration,
                                           !.lastUpdateTime = now], t, now)
          ELSE <<[c EXCEPT !.totalDuration = @ + duration, !.lastUpdateTime = now], None>>,
          f, now)

RECURSIVE SumArousal(_)
SumArousal(states) ==
  IF states = <<>> THEN 0 ELSE Head(states).arousal + SumArousal(Tail(states))

\* a trend that needs a difference above 0.2
TrendAboveFifth(recent, avgEarlyArousal, avgLateArousal) ==
  IF Len(recent) < 2 THEN "stable"
  ELSE IF avgLateArousal - avgEarlyArousal > 200 THEN "escalating"
  ELSE IF avgEarlyArousal - avgLateArousal > 200 THEN "de-escalating"
  ELSE "stable"

Trend(recent, avgEarlyArousal, avgLateArousal) ==
  IF Len(recent) < 2 THEN "stable"
  ELSE IF avgLateArousal - avgEarlyArousal > 150 THEN "escalating"
  ELSE IF avgEarlyArousal - avgLateArousal > 150 THEN "de-escalating"
  ELSE "stable"

\* avgEarlyArousal and avgLateArousal: each sum is divided by 5, however
\* many states its slice holds
ArousalAverages(recent) ==
  <<SumArousal(SubSeq(recent, 1, IF Len(recent) < 5 THEN Len(recent) ELSE 5)) \div 5,
    SumArousal(Last(recent, 5)) \div 5>>

TrendOf(recent) ==
  Trend(recent, ArousalAverages(recent)[1], ArousalAverages(recent)[2])

getEmotionalTrend(c) == TrendOf(Last(c.emotionalProgression, 10))

(* ------------------------ ContextualMetadataFeed ---------------------- *)
\* A channel is the list of its entries' values: every entry is fed with
\* the default weight 1.0 (updateConfidence, the one weighted feed, has no
\* caller), and entry timestamps are never read.
FreshQuality ==
  [signalToNoiseRatio |-> 1000, clippingDetected |-> FALSE, silenceRatio |-> 0,
   audioIntegrity |-> 1000]

FreshMetadata ==
  [confidence |-> <<>>, noise |-> <<>>, amplitude |-> <<>>, stress |-> <<>>,
   quality |-> <<>>, stressMarkers |-> <<>>, qualityIndicators |-> FreshQuality]

ChannelHistory == 100
MarkerWindowMs == 5000
RecentMarkerMs == 2000

feedChannel(m, channelType, value) ==
  [m EXCEPT ![channelType] =
              Capped(Append(@, MathMax(0, MathMin(1000, value))), ChannelHistory)]

estimateNoiseLevel(a) == MathMin(1000, Mul(a.noiseFloor, 5000))
calculateAmplitude(a) == MathMin(1000, Mul(a.rms, 3000))

addStressMarker(m, marker, now) ==
  [m EXCEPT !.stressMarkers =
              SelectSeq(Append(@, marker), LAMBDA k : k.timestamp > now - MarkerWindowMs)]

RECURSIVE SumIntensity(_)
SumIntensity(markers) ==
  IF markers = <<>> THEN 0 ELSE Add(Head(markers).intensity, SumIntensity(Tail(markers)))

StressOf(recentMarkers) ==
  IF Len(recentMarkers) = 0 THEN 0
  ELSE Add(Mul(DivN(SumIntensity(recentMarkers), Len(recentMarkers)), 600),
           Mul(MathMin(1000, (Len(recentMarkers) * 1000) \div 5), 400))

metadataOverallStress(m, now) ==
  IF Len(m.stressMarkers) = 0 THEN 0
  ELSE StressOf(SelectSeq(m.stressMarkers, LAMBDA k : now - k.timestamp < RecentMarkerMs))

\* one of the three detections: the marker is added when its test holds
Marked(m, detected, type, intensity, now) ==
  IF detected
  THEN addStressMarker(m, [type |-> type, intensity |-> intensity, timestamp |-> now], now)
  ELSE m

StressFed(m, now) == feedChannel(m, "stress", metadataOverallStress(m, now))

detectStressMarkers(m, a, now) ==
  StressFed(
    Marked(
      Marked(
        Marked(m, Gt(a.maxAmp, Mul(a.avgAmp, 3000)) /\ Gt(a.maxAmp, 500),
               "volume_spike", MathMin(1000, a.maxAmp), now),
        Gt(a.zcr, 300), "pitch_break", MathMin(1000, a.zcr), now),
      Gt(a.silence05, 300) /\ Lt(a.silence05, 700), "speech_hesitation", a.silence05, now),
    now)

QualityIndicators(a, snr) ==
  [signalToNoiseRatio |-> snr, clippingDetected |-> a.clipping,
   silenceRatio |-> a.silence01,
   audioIntegrity |-> Add(Add(Mul(snr, 400), IF a.clipping THEN 0 ELSE 300),
                          Mul(Sub(1000, a.silence01), 300))]

Indicated(m, indicators) ==
  feedChannel([m EXCEPT !.qualityIndicators = indicators], "quality",
              indicators.audioIntegrity)

Snr(signal, noise) ==
  IF Gt(noise, 0) THEN DivN(MathMin(10000, Div(signal, noise)), 10) ELSE 1000

updateQualityIndicators(m, a) ==
  Indicated(m, QualityIndicators(a, Snr(a.maxAmp, estimateNoiseLevel(a))))

\* ContextualMetadataFeed.processAudioChunk
processAudioChunk(m, a, now) ==
  updateQualityIndicators(
    detectStressMarkers(
      feedChannel(feedChannel(m, "noise", estimateNoiseLevel(a)),
                  "amplitude", calculateAmplitude(a)),
      a, now),
    a)

Average(recentEntries) == DivN(SumSeq(recentEntries), Len(recentEntries))

getChannelAverage(m, channelType) ==
  IF Len(m[channelType]) = 0 THEN 0 ELSE Average(Last(m[channelType], 20))

calculateContextualWeight(m) ==
  Add(Add(Mul(m.qualityIndicators.audioIntegrity, 400),
          Mul(getChannelAverage(m, "confidence"), 400)),
      Mul(Sub(1000, getChannelAverage(m, "noise")), 200))

getAggregatedMetadata(m) ==
  [confidenceScore |-> getChannelAverage(m, "confidence"),
   backgroundNoiseLevel |-> getChannelAverage(m, "noise"),
   averageAmplitude |-> getChannelAverage(m, "amplitude"),
   stressMarkers |-> m.stressMarkers,
   qualityIndicators |-> m.qualityIndicators,
   contextualWeight |-> calculateContextualWeight(m)]

applyContextualWeighting(basePrediction, metadata) ==
  MathMax(0, MathMin(1000,
    Add(basePrediction,
        Mul(  (IF Len(metadata.stressMarkers) > 3 THEN 100 ELSE 0)
            - (IF Lt(metadata.qualityIndicators.audioIntegrity, 500) THEN 50 ELSE 0)
            + (IF Gt(metadata.backgroundNoiseLevel, 600) THEN 50 ELSE 0),
            metadata.contextualWeight))))

(* ------------------------ FraudAnalysisPipeline ----------------------- *)
\* Pipeline 1 is the module's exported singleton fraudAnalysisPipeline,
\* pipeline 2 the instance a useAudioAnalysis hook constructs.  Both are
\* built on the same four singletons.
Pipelines == {1, 2}

ChunkDurationMs == 2500
DefaultThreshold == 700

DefaultConfig ==
  [chunkDuration |-> ChunkDurationMs, enableDiarization |-> TRUE,
   enableTextAnalysis |-> TRUE, enableAudioFeatures |-> TRUE,
   enableMetadataFeed |-> TRUE, fraudThreshold |-> DefaultThreshold]

\* the configurations the second pipeline is constructed with: the default,
\* a lower alert threshold, text analysis alone, and every sub-analysis
\* disabled
Configs ==
  {DefaultConfig,
   [DefaultConfig EXCEPT !.fraudThreshold = 300],
   [DefaultConfig EXCEPT !.enableDiarization = FALSE, !.enableAudioFeatures = FALSE,
                         !.enableMetadataFeed = FALSE],
   [DefaultConfig EXCEPT !.enableDiarization = FALSE, !.enableTextAnalysis = FALSE,
                         !.enableAudioFeatures = FALSE, !.enableMetadataFeed = FALSE]}

\* the chunks fed: a buffer and the transcript that comes with it
Chunks ==
  {<<ShortBuf, NoTranscript>>, <<SilenceBuf, NoTranscript>>, <<CalmBuf, GreetingText>>,
   <<CalmBuf, BankText>>, <<CalmBuf, IrsText>>, <<StressedBuf, IrsText>>,
   <<StressedBuf, AbuseText>>}

\* performance.now() differences, in milliseconds
ProcessingTimes == {2}

initializeStats ==
  [totalChunksProcessed |-> 0, averageProcessingTime |-> 0, peakFraudProbability |-> 0,
   dominantSpeaker |-> 0, detectedTopics |-> <<>>, alertsTriggered |-> 0]

FreshPipeline ==
  [isActive |-> FALSE, chunkCounter |-> 0, processingTimes |-> <<>>,
   stats |-> initializeStats, lastTopicShift |-> None, lastEmotionalState |-> None]

WeightText == 350
WeightAudio == 250
WeightSpeaker == 200
WeightContext == 200

AudioScore(af) ==
  Add(Add(Mul(af.overallStressScore, 400), Mul(af.voiceStress, 300)),
      (IF Gt(af.speechRate, 700) THEN 200 ELSE 0)
      + (IF Gt(af.energySpikes, 500) THEN 100 ELSE 0))

ContextScore(md) ==
  Add((IF Len(md.stressMarkers) > 0 THEN 200 ELSE 0)
      + (IF Gt(md.backgroundNoiseLevel, 500) THEN 100 ELSE 0),
      Mul(Sub(1000, md.confidenceScore), 100))

\* a total weight that counts the four weights whatever is given
TotalWeightOfAll(textFeatures, audioFeatures, metadata, speakerInfo) ==
  WeightText + WeightAudio + WeightSpeaker + WeightContext

\* totalWeight at the end of fuseSignals: the weights of the signals given
TotalWeight(textFeatures, audioFeatures, metadata, speakerInfo) ==
    (IF IsSome(textFeatures) THEN WeightText ELSE 0)
  + (IF IsSome(audioFeatures) THEN WeightAudio ELSE 0)
  + (IF IsSome(speakerInfo) THEN WeightSpeaker ELSE 0)
  + (IF IsSome(metadata) THEN WeightContext ELSE 0)

\* score * weight, in millionths
Term(score, weight) == IF IsNaN(score) THEN NaN ELSE score * weight

\* what fuseSignals returns for the sums it has accumulated
FusionResult(weightedSum, totalWeight, confidenceSum) ==
  [probability |-> MathMin(1000, IF totalWeight > 0 THEN DivN(weightedSum, totalWeight)
                                 ELSE 0),
   confidence |-> DivN(confidenceSum, 4)]

\* fuseSignals: each argument is None or Some(value).  Sums of score x
\* weight are kept in millionths, so the quotient by the total weight is
\* in thousandths.
fuseSignals(textFeatures, audioFeatures, metadata, speakerInfo) ==
  FusionResult(
    Add(Add(Term(IF IsSome(textFeatures) THEN Val(textFeatures).textFraudScore ELSE 0,
                 WeightText),
            Term(IF IsSome(audioFeatures) THEN AudioScore(Val(audioFeatures)) ELSE 0,
                 WeightAudio)),
        Add(Term(IF IsSome(speakerInfo) THEN Val(speakerInfo).fraudProbability ELSE 0,
                 WeightSpeaker),
            Term(IF IsSome(metadata) THEN ContextScore(Val(metadata)) ELSE 0,
                 WeightContext))),
    TotalWeight(textFeatures, audioFeatures, metadata, speakerInfo),
    Add(Add(IF IsSome(textFeatures) THEN 900 ELSE 0,
            IF IsSome(audioFeatures) THEN Val(audioFeatures).audioQualityScore ELSE 0),
        Add(IF IsSome(speakerInfo) THEN Val(speakerInfo).avgConfidence ELSE 0,
            IF IsSome(metadata) THEN Val(metadata).qualityIndicators.audioIntegrity
            ELSE 0)))

determineRiskLevel(probability) ==
  IF Ge(probability, 800) THEN "blocked"
  ELSE IF Ge(probability, 500) THEN "warning"
  ELSE "safe"

collectFraudIndicators(textFeatures, audioFeatures, speakerInfo, metadata) ==
  (IF IsSome(textFeatures)
   THEN LET tf == Val(textFeatures)
        IN (IF tf.authorityScore > 500
            THEN {"authority_impersonation"} \cup {tf.authorityPhrases[i] : i \in DOMAIN tf.authorityPhrases}
            ELSE {})
           \cup (IF tf.urgencyScore > 500 THEN {"high_urgency"} ELSE {})
           \cup (IF tf.piiRequestScore > 500 THEN {"pii_solicitation"} \cup tf.piiTypes ELSE {})
           \cup (IF tf.threatDensity > 300 THEN {"threat_language"} ELSE {})
           \cup (IF tf.bigramThreatScore > 700 THEN {"dangerous_phrases"} ELSE {})
   ELSE {})
  \cup
  (IF IsSome(audioFeatures)
   THEN LET af == Val(audioFeatures)
        IN (IF Gt(af.voiceStress, 700) THEN {"high_voice_stress"} ELSE {})
           \cup (IF Gt(af.speechRate, 800) THEN {"rapid_speech"} ELSE {})
           \cup (IF Gt(af.energySpikes, 600) THEN {"aggressive_tone"} ELSE {})
           \cup (IF af.backgroundNoiseType = "call_center" THEN {"call_center_background"} ELSE {})
   ELSE {})
  \cup
  (IF IsSome(speakerInfo) /\ Gt(Val(speakerInfo).fraudProbability, 600)
   THEN {"high_risk_speaker"} ELSE {})
  \cup
  (IF IsSome(metadata)
   THEN (IF Len(Val(metadata).stressMarkers) > 3 THEN {"multiple_stress_markers"} ELSE {})
        \cup (IF Val(metadata).qualityIndicators.clippingDetected
              THEN {"audio_manipulation"} ELSE {})
   ELSE {})
(* -------------------------------- state ------------------------------- *)
VARIABLES
  config,            \* config[p]: the PipelineConfig of pipeline p
  pipe,              \* pipe[p]: the private fields of pipeline p
  context,           \* contextTracker.state
  diarization,       \* speakerDiarization
  metadataFeed,      \* contextualMetadataFeed
  previousSpectrum,  \* audioFeatureExtractor.previousSpectrum
  now,               \* Date.now(), milliseconds
  started,           \* started[p]: start or stop was called on p, and the last
                     \* of these calls was start
  chunksFed,         \* successful processChunk calls so far, on any pipeline
  ret,               \* the last step's processChunk call: what it returned, threw
                     \* and notified (NoCall after any other step)
  inFlight,          \* the processChunk call whose result listeners are running:
                     \* what it will return, or None
  probe              \* the input of a tracker or extractor that is driven on its
                     \* own, without a pipeline (None when a pipeline drives them)

vars == <<config, pipe, context, diarization, metadataFeed, previousSpectrum, now,
          started, chunksFed, ret, inFlight, probe>>

TickMs == 3000

\* the last step was no processChunk call
NoCall ==
  [pipeline |-> 0, chunk |-> None, error |-> "", result |-> None, fusion |-> None,
   onResult |-> 0, onAlert |-> 0]

\* the module state after import and construction
Constructed ==
  /\ config \in [Pipelines -> Configs]
  /\ config[1] = DefaultConfig
  /\ pipe = [p \in Pipelines |-> FreshPipeline]
  /\ context = FreshContext(0)
  /\ diarization = FreshDiarization
  /\ metadataFeed = FreshMetadata
  /\ previousSpectrum = None
  /\ now = 0
  /\ started = [p \in Pipelines |-> FALSE]
  /\ chunksFed = 0
  /\ ret = NoCall
  /\ inFlight = None

Init == Constructed /\ probe = None

\* a reset that also stops the pipeline
resetFieldsStopping(pl) ==
  [pl EXCEPT !.isActive = FALSE, !.chunkCounter = 0, !.processingTimes = <<>>,
             !.stats = initializeStats, !.lastTopicShift = None,
             !.lastEmotionalState = None]

\* FraudAnalysisPipeline.reset, the pipeline's own fields
resetFields(pl) ==
  [pl EXCEPT !.chunkCounter = 0, !.processingTimes = <<>>, !.stats = initializeStats,
             !.lastTopicShift = None, !.lastEmotionalState = None]

\* a reset that forgets to reset the diarization engine
resetTrackersKeepingSpeakers ==
  /\ context' = FreshContext(now)
  /\ metadataFeed' = FreshMetadata
  /\ UNCHANGED <<diarization, previousSpectrum>>

\* FraudAnalysisPipeline.reset, the three trackers it resets; the audio
\* feature extractor has no reset and keeps its previous spectrum
resetTrackers ==
  /\ context' = FreshContext(now)
  /\ diarization' = FreshDiarization
  /\ metadataFeed' = FreshMetadata
  /\ UNCHANGED previousSpectrum

Reset(p) ==
  /\ pipe' = [pipe EXCEPT ![p] = resetFields(@)]
  /\ resetTrackers
  /\ ret' = NoCall
  /\ UNCHANGED <<config, now, started, chunksFed, inFlight, probe>>

Start(p) ==
  /\ pipe' = [pipe EXCEPT ![p] = resetFields([@ EXCEPT !.isActive = TRUE])]
  /\ resetTrackers
  /\ started' = [started EXCEPT ![p] = TRUE]
  /\ ret' = NoCall
  /\ UNCHANGED <<config, now, chunksFed, inFlight, probe>>

Stop(p) ==
  /\ pipe' = [pipe EXCEPT ![p].isActive = FALSE]
  /\ started' = [started EXCEPT ![p] = FALSE]
  /\ ret' = NoCall
  /\ UNCHANGED <<config, context, diarization, metadataFeed, previousSpectrum, now,
                 chunksFed, inFlight, probe>>

\* the listeners every constructed pipeline registers on the shared trackers
\* in setupEventListeners, run for all of them on each event
OnTopicShift(pp, shift) ==
  [q \in Pipelines |->
     IF IsSome(shift)
     THEN [pp[q] EXCEPT
             !.lastTopicShift = shift,
             !.stats.detectedTopics =
               IF \E i \in DOMAIN @ : @[i] = Val(shift).toTopic THEN @
               ELSE Append(@, Val(shift).toTopic)]
     ELSE pp[q]]

OnEmotionChange(pp, emotion) ==
  [q \in Pipelines |->
     IF IsSome(emotion) THEN [pp[q] EXCEPT !.lastEmotionalState = emotion] ELSE pp[q]]

OnFraudUpdate(pp, probability) ==
  [q \in Pipelines |->
     IF IsSome(probability) /\ Gt(Val(probability), pp[q].stats.peakFraudProbability)
     THEN [pp[q] EXCEPT !.stats.peakFraudProbability = Val(probability)]
     ELSE pp[q]]

\* speakers.reduce((a, b) => a.totalSpeakingTime > b.totalSpeakingTime ? a : b)
Longer(speakers, a, b) ==
  IF speakers[a].totalSpeakingTime > speakers[b].totalSpeakingTime THEN a ELSE b

RECURSIVE Dominant(_, _)
Dominant(speakers, n) ==
  IF n = 1 THEN 1 ELSE Longer(speakers, Dominant(speakers, n - 1), n)

\* the statistics for the processing times kept
Timed(pl, times, fraudProbability, speakers) ==
  [pl EXCEPT
     !.processingTimes = times,
     !.stats.totalChunksProcessed = @ + 1,
     !.stats.averageProcessingTime = SumSeq(times) \div Len(times),
     !.stats.peakFraudProbability = IF Gt(fraudProbability, @) THEN fraudProbability ELSE @,
     !.stats.dominantSpeaker =
       IF Len(speakers) > 0 THEN Dominant(speakers, Len(speakers)) ELSE @]

updateProcessingStats(pl, processingTime, fraudProbability, speakers) ==
  Timed(pl, Capped(Append(pl.processingTimes, processingTime), 100),
        fraudProbability, speakers)

\* The body of FraudAnalysisPipeline.processChunk on an active pipeline p,
\* step by step; each step hands what it computed to the next.
\* a: the buffer, t: the transcript, pitchEstimate: the draw of Math.random()
\* in the diarization engine, processingTime: the performance.now()
\* difference.

\* an alert that goes with the risk level 'blocked'
AlertsWhenBlocked(p, finalProbability) == Ge(finalProbability, 800)

\* finalProbability >= this.config.fraudThreshold
Alerts(p, finalProbability) == Ge(finalProbability, config[p].fraudThreshold)

\* the result built, the topic shift cleared, the listeners notified and the
\* alert counted: every variable's next value and what the call returns
WithStats(p, a, t, an, fusionResult, finalProbability, heard, counted) ==
  [pipe |-> [heard EXCEPT ![p] =
               [counted EXCEPT
                  !.lastTopicShift = None,
                  !.stats.alertsTriggered =
                     IF Alerts(p, finalProbability) THEN @ + 1 ELSE @]],
   context |-> an.context,
   diarization |-> an.diarization,
   metadataFeed |-> an.metadataFeed,
   previousSpectrum |->
     IF config[p].enableAudioFeatures THEN Some(a.spectrum) ELSE previousSpectrum,
   ret |-> [pipeline |-> p, chunk |-> <<a, t>>, error |-> "",
            result |->
              Some([timestamp |-> now, chunkId |-> pipe[p].chunkCounter,
                    textFeatures |-> an.textFeatures,
                    audioFeatures |-> an.audioFeatures,
                    speakerInfo |-> an.speakerInfo,
                    metadata |-> an.metadata,
                    conversationState |-> an.context,
                    fraudProbability |-> finalProbability,
                    riskLevel |-> determineRiskLevel(finalProbability),
                    confidenceScore |-> fusionResult.confidence,
                    fraudIndicators |->
                      collectFraudIndicators(an.textFeatures, an.audioFeatures,
                                             an.speakerInfo, an.metadata),
                    emotionalState |-> counted.lastEmotionalState,
                    topicShift |-> counted.lastTopicShift]),
            fusion |-> Some(fusionResult),
            onResult |-> 1,
            onAlert |-> IF Alerts(p, finalProbability) THEN 1 ELSE 0]]

\* the statistics updated on the fields the listeners have written
WithProbability(p, a, t, processingTime, an, fusionResult, finalProbability, heard) ==
  WithStats(p, a, t, an, fusionResult, finalProbability, heard,
            updateProcessingStats([heard[p] EXCEPT !.chunkCounter = @ + 1],
                                  processingTime, finalProbability,
                                  an.diarization.speakers))

\* 7. contextual weighting; and the listeners of all pipelines, in the order
\* the events fired
WithFusion(p, a, t, processingTime, an, fusionResult) ==
  WithProbability(p, a, t, processingTime, an, fusionResult,
    IF IsSome(an.metadata)
    THEN applyContextualWeighting(fusionResult.probability, Val(an.metadata))
    ELSE fusionResult.probability,
    OnEmotionChange(OnTopicShift(OnFraudUpdate(pipe, an.fraudUpdate), an.topicShift),
                    an.emotion))

\* 6. fusion
WithAnalysis(p, a, t, processingTime, an) ==
  WithFusion(p, a, t, processingTime, an,
             fuseSignals(an.textFeatures, an.audioFeatures, an.metadata, an.speakerInfo))

\* what steps 1-5 computed and left in the shared trackers.  m1: the metadata
\* feed, segmented: <<diarization engine, speaker id>>, tracked: <<context,
\* topic shift>>
Analysis(cfg, t, audioFeatures, m1, segmented, textFeatures, tracked) ==
  [audioFeatures |-> audioFeatures,
   metadataFeed |-> m1,
   metadata |-> IF cfg.enableMetadataFeed /\ IsSome(audioFeatures)
                THEN Some(getAggregatedMetadata(m1)) ELSE None,
   diarization |-> segmented[1],
   speakerInfo |-> IF cfg.enableDiarization
                   THEN Some(segmented[1].speakers[segmented[2]]) ELSE None,
   fraudUpdate |-> IF cfg.enableDiarization /\ t.present
                   THEN Some(segmented[1].speakers[segmented[2]].fraudProbability)
                   ELSE None,
   textFeatures |-> textFeatures,
   context |-> tracked[1],
   topicShift |-> tracked[2],
   emotion |-> IF IsSome(audioFeatures)
               THEN Some(tracked[1].emotionalProgression[
                           Len(tracked[1].emotionalProgression)])
               ELSE None]

\* 2. metadata feed, 3. diarization, 4. text features, 5. context tracker
WithAudio(p, a, t, pitchEstimate, processingTime, audioFeatures) ==
  WithAnalysis(p, a, t, processingTime,
    Analysis(config[p], t, audioFeatures,
      IF config[p].enableMetadataFeed /\ IsSome(audioFeatures)
      THEN processAudioChunk(metadataFeed, a, now) ELSE metadataFeed,
      IF config[p].enableDiarization
      THEN processSegment(diarization, a,
                          pipe[p].chunkCounter * config[p].chunkDuration,
                          (pipe[p].chunkCounter + 1) * config[p].chunkDuration,
                          t, pitchEstimate)
      ELSE <<diarization, 0>>,
      IF config[p].enableTextAnalysis /\ t.present THEN Some(extractText(t)) ELSE None,
      contextProcessChunk(context, t, config[p].chunkDuration,
        IF IsSome(audioFeatures)
        THEN Some([pitchVariance |-> Val(audioFeatures).pitchVariance,
                   energyLevel |-> Val(audioFeatures).energyMean,
                   speechRate |-> Val(audioFeatures).speechRate,
                   voiceStress |-> Val(audioFeatures).voiceStress])
        ELSE None,
        now)))

\* 1. audio features
Chunk(p, a, t, pitchEstimate, processingTime) ==
  WithAudio(p, a, t, pitchEstimate, processingTime,
            IF config[p].enableAudioFeatures
            THEN Some(extract(a, previousSpectrum)) ELSE None)

\* the step to what a processChunk call computed
Processed(next) ==
  /\ pipe' = next.pipe
  /\ context' = next.context
  /\ diarization' = next.diarization
  /\ metadataFeed' = next.metadataFeed
  /\ previousSpectrum' = next.previousSpectrum
  /\ ret' = next.ret

ProcessChunk(p) ==
  /\ pipe[p].isActive
  /\ chunksFed < MaxChunks
  /\ chunksFed' = chunksFed + 1
  /\ \E chunk \in Chunks, processingTime \in ProcessingTimes :
       \E pitchEstimate \in IF config[p].enableDiarization THEN PitchDraws ELSE {0} :
         Processed(Chunk(p, chunk[1], chunk[2], pitchEstimate, processingTime))
  /\ UNCHANGED <<config, now, started, inFlight, probe>>

\* a processChunk that takes its chunk id before it looks at isActive
ProcessChunkInactiveCounting(p) ==
  /\ ~pipe[p].isActive
  /\ pipe' = [pipe EXCEPT ![p].chunkCounter = @ + 1]
  /\ ret' = [NoCall EXCEPT !.pipeline = p, !.error = "Pipeline is not active"]
  /\ UNCHANGED <<config, context, diarization, metadataFeed, previousSpectrum,
                 now, started, chunksFed, inFlight, probe>>

\* processChunk on a pipeline that is not active: the throw of its first line
ProcessChunkInactive(p) ==
  /\ ~pipe[p].isActive
  /\ ret' = [NoCall EXCEPT !.pipeline = p, !.error = "Pipeline is not active"]
  /\ UNCHANGED <<config, pipe, context, diarization, metadataFeed, previousSpectrum,
                 now, started, chunksFed, inFlight, probe>>

\* time passes between two calls
Tick ==
  /\ now < MaxTicks * TickMs
  /\ now' = now + TickMs
  /\ ret' = NoCall
  /\ UNCHANGED <<config, pipe, context, diarization, metadataFeed, previousSpectrum,
                 started, chunksFed, inFlight, probe>>

Next ==
  \/ \E p \in Pipelines : Start(p)
  \/ \E p \in Pipelines : Stop(p)
  \/ \E p \in Pipelines : Reset(p)
  \/ \E p \in Pipelines : ProcessChunk(p)
  \/ \E p \in Pipelines : ProcessChunkInactive(p)
  \/ Tick

Spec == Init /\ [][Next]_vars

(* ------------------- listeners that call the pipeline ------------------ *)
\* the alert counted before the result listeners run
NotifiedAfterAlert(p, next) ==
  /\ pipe' = next.pipe
  /\ context' = next.context
  /\ diarization' = next.diarization
  /\ metadataFeed' = next.metadataFeed
  /\ previousSpectrum' = next.previousSpectrum
  /\ inFlight' = Some(next.ret)
  /\ ret' = NoCall

\* processChunk up to this.resultCallbacks.forEach(cb => cb(result)): all its
\* updates but the alert count, which comes after the result listeners
Notified(p, next) ==
  /\ pipe' = [next.pipe EXCEPT ![p].stats.alertsTriggered = pipe[p].stats.alertsTriggered]
  /\ context' = next.context
  /\ diarization' = next.diarization
  /\ metadataFeed' = next.metadataFeed
  /\ previousSpectrum' = next.previousSpectrum
  /\ inFlight' = Some(next.ret)
  /\ ret' = NoCall

NotifyResult(p) ==
  /\ inFlight = None
  /\ pipe[p].isActive
  /\ chunksFed < MaxChunks
  /\ chunksFed' = chunksFed + 1
  /\ \E chunk \in Chunks, processingTime \in ProcessingTimes :
       \E pitchEstimate \in IF config[p].enableDiarization THEN PitchDraws ELSE {0} :
         Notified(p, Chunk(p, chunk[1], chunk[2], pitchEstimate, processingTime))
  /\ UNCHANGED <<config, now, started, probe>>

\* the rest of processChunk, once the result listeners have returned: the
\* alert check, on the statistics as they are by then, and the return
CheckAlert(p) ==
  /\ IsSome(inFlight)
  /\ Val(inFlight).pipeline = p
  /\ pipe' = [pipe EXCEPT ![p].stats.alertsTriggered = @ + Val(inFlight).onAlert]
  /\ ret' = Val(inFlight)
  /\ inFlight' = None
  /\ UNCHANGED <<config, context, diarization, metadataFeed, previousSpectrum, now,
                 started, chunksFed, probe>>

\* a result listener is any function; while it runs it may call start, stop
\* or reset, on the pipeline that notified it as on any other
NextListeners ==
  \/ \E p \in Pipelines : Start(p)
  \/ \E p \in Pipelines : Stop(p)
  \/ \E p \in Pipelines : Reset(p)
  \/ \E p \in Pipelines : NotifyResult(p)
  \/ \E p \in Pipelines : CheckAlert(p)
  \/ \E p \in Pipelines : inFlight = None /\ ProcessChunkInactive(p)
  \/ inFlight = None /\ Tick

SpecListeners == Init /\ [][NextListeners]_vars

(* ------------------------------ observers ----------------------------- *)
isRunning(p) == pipe[p].isActive
getStats(p) == pipe[p].stats
getConversationState == context
getDiarizationResult == [speakers |-> diarization.speakers,
                         currentSpeaker |-> diarization.currentSpeaker]

\* the last step was a processChunk call on p
Called(p) == ret.pipeline = p
\* ... that returned a result
Returned(p) == ret.pipeline = p /\ IsSome(ret.result)
\* ... that threw
Threw(p) == ret.pipeline = p /\ ret.error # ""

(* ------------------------------- lifecycle ---------------------------- *)
\* C1: processChunk on a pipeline that is not active throws 'Pipeline is not
\* active' and changes nothing: the pipeline's chunk counter and statistics
\* (every pipeline's fields, in fact) and the speaker, context and metadata
\* trackers are after the call what they were before it, and neither an
\* onResult nor an onAlert listener is invoked.
C1_InactiveChunkChangesNothing ==
  [][\A p \in Pipelines :
       (~isRunning(p) /\ Called(p)') =>
         /\ ret'.error = "Pipeline is not active"
         /\ ret'.result = None
         /\ ret'.onResult = 0 /\ ret'.onAlert = 0
         /\ pipe' = pipe
         /\ diarization' = diarization
         /\ context' = context
         /\ metadataFeed' = metadataFeed]_vars

\* a stopped pipeline with chunks counted refuses a chunk while the trackers
\* hold the speakers of an earlier chunk
C1_Witness ==
  \E p \in Pipelines :
    /\ Threw(p)
    /\ pipe[p].chunkCounter > 0
    /\ pipe[p].stats.totalChunksProcessed > 0
    /\ Len(diarization.speakers) > 0

\* C2: a pipeline is idle or active: idle when constructed, active after
\* start(), idle after stop(), and reset() leaves it as it is; so after any
\* calls isRunning() holds exactly when the last start-or-stop call was
\* start(), and a processChunk call returns a result exactly in that case.
C2_TwoStateMachine ==
  /\ [](\A p \in Pipelines : isRunning(p) = started[p])
  /\ [][\A p \in Pipelines : Called(p)' => (Returned(p)' <=> started[p])]_vars

\* one pipeline stopped after it processed a chunk, the other running
C2_Witness ==
  \E p, q \in Pipelines :
    /\ ~isRunning(p) /\ pipe[p].stats.totalChunksProcessed > 0
    /\ isRunning(q) /\ Returned(q)

(* -------------------------------- reset ------------------------------- *)
\* what a caller of pipeline p reads back: getStats(), getConversationState()
\* without its lastUpdateTime stamp, getDiarizationResult() and
\* getEmotionalTrend()
Observation(p) ==
  [stats |-> getStats(p),
   conversation |-> [getConversationState EXCEPT !.lastUpdateTime = 0],
   diarization |-> getDiarizationResult,
   trend |-> getEmotionalTrend(context)]

\* the same of a pipeline just constructed
FreshObservation ==
  [stats |-> initializeStats,
   conversation |-> FreshContext(0),
   diarization |-> [speakers |-> <<>>, currentSpeaker |-> 0],
   trend |-> "stable"]

\* a reset() of p now would change nothing
FixedByReset(p) ==
  /\ resetFields(pipe[p]) = pipe[p]
  /\ context = FreshContext(now)
  /\ diarization = FreshDiarization
  /\ metadataFeed = FreshMetadata

\* C3: reset() restores the fresh state and is idempotent: after a reset()
\* of p, whatever chunks came before, getStats(), getConversationState()
\* (apart from lastUpdateTime), getDiarizationResult() and
\* getEmotionalTrend() are those of a newly constructed pipeline, and a
\* second reset() right after changes nothing.
C3_ResetRestoresFresh ==
  [][\A p \in Pipelines :
       Reset(p) => (Observation(p)' = FreshObservation /\ FixedByReset(p)')]_vars

\* a stopped pipeline reads back the fresh state after chunks were fed
C3_Witness ==
  \E p \in Pipelines :
    /\ chunksFed = MaxChunks
    /\ ~isRunning(p)
    /\ previousSpectrum # None
    /\ Observation(p) = FreshObservation
    /\ FixedByReset(p)

\* C4: reset() and start() clear the extractor's previous spectrum: the
\* first chunk processed after a reset (the pipeline has counted no chunk
\* and the context tracker no duration since) has spectralFlux = 0,
\* whatever was processed before the reset.
C4_FirstFluxIsZero ==
  [][\A p \in Pipelines :
       (Returned(p)' /\ pipe[p].chunkCounter = 0 /\ context.totalDuration = 0
        /\ IsSome(Val(ret'.result).audioFeatures)) =>
         Val(Val(ret'.result).audioFeatures).spectralFlux = 0]_vars

(* ------------------------------ ownership ----------------------------- *)
\* what is read through pipeline q: its statistics, the speaker roster and
\* the conversation state
ObservedThrough(q) ==
  [stats |-> getStats(q),
   roster |-> getDiarizationResult.speakers,
   conversation |-> getConversationState]

\* C5: a pipeline owns its trackers: a processChunk, start or reset on
\* pipeline p changes nothing of what is read through another pipeline q:
\* its statistics (detectedTopics, peakFraudProbability), the speaker
\* roster and the conversation state.
C5_ExclusiveOwnership ==
  [][\A p, q \in Pipelines :
       (p # q /\ (Returned(p)' \/ Start(p) \/ Reset(p))) =>
         ObservedThrough(q)' = ObservedThrough(q)]_vars

(* ------------------------------- scoring ------------------------------ *)
\* the result the last step's processChunk call returned
Result == Val(ret.result)
\* ... and what its fuseSignals call returned
Fusion == Val(ret.fusion)

\* the scores of a result: resolved speaker id (0: none), fraudProbability,
\* confidenceScore and riskLevel
Scored(result) ==
  [speaker |-> IF IsSome(result.speakerInfo) THEN Val(result.speakerInfo).id ELSE 0,
   fraudProbability |-> result.fraudProbability,
   confidenceScore |-> result.confidenceScore,
   riskLevel |-> result.riskLevel]

\* C6: scoring is deterministic: the speaker id, fraudProbability,
\* confidenceScore and riskLevel of a chunk are decided by the chunks fed
\* since the pipeline started, so that two pipelines fed the same chunks
\* agree on every chunk: from one state, the same chunk gets the same
\* scores whatever the engine draws for its pitch estimate.
C6_DeterministicScoring ==
  [][\A p \in Pipelines :
       Returned(p)' =>
         \A pitchEstimate \in PitchDraws, processingTime \in ProcessingTimes :
           Scored(Val(Chunk(p, ret'.chunk[1], ret'.chunk[2], pitchEstimate,
                            processingTime).ret.result))
             = Scored(Result')]_vars

InUnit(x) == x >= 0 /\ x <= 1000

\* the acoustic and text features that are numbers normalized to [0,1]
\* (sentimentPolarity ranges over [-1,1])
AcousticFeatureNames ==
  {"pitchMean", "pitchVariance", "pitchRange", "pitchSlope", "energyMean",
   "energyVariance", "energySpikes", "energyDynamicRange", "voiceStress", "jitter",
   "shimmer", "harmonicToNoiseRatio", "spectralCentroid", "spectralFlatness",
   "spectralRolloff", "spectralFlux", "speechRate", "articulationRate", "pauseRatio",
   "zeroCrossingRate", "backgroundEntropy", "overallStressScore", "audioQualityScore"}

TextFeatureNames ==
  {"authorityScore", "urgencyScore", "threatDensity", "piiRequestScore",
   "imperativeFrequency", "cyberbullyingScore", "subjectivityScore",
   "questionFrequency", "negationFrequency", "bigramThreatScore",
   "trigramPatternScore", "textFraudScore"}

\* C7: whatever the chunks and the enable-flags, every result has
\* fraudProbability and confidenceScore in [0,1] and carries only
\* normalized acoustic and text features in [0,1].
C7_ScoresInUnitInterval ==
  \A p \in Pipelines :
    Returned(p) =>
      /\ InUnit(Result.fraudProbability)
      /\ InUnit(Result.confidenceScore)
      /\ IsSome(Result.audioFeatures) =>
            \A n \in AcousticFeatureNames : InUnit(Val(Result.audioFeatures)[n])
      /\ IsSome(Result.textFeatures) =>
            \A n \in TextFeatureNames : InUnit(Val(Result.textFeatures)[n])

\* score x weight, in millionths
Weighted(score, weight) == IF IsNaN(score) THEN NaN ELSE score * weight

\* the signals of a result: <<name, score x weight, weight, confidence
\* contribution>> of each of text, audio, speaker and context present
Signals(result) ==
  (IF IsSome(result.textFeatures)
   THEN {<<"text", Weighted(Val(result.textFeatures).textFraudScore, WeightText),
           WeightText, 900>>} ELSE {})
  \cup
  (IF IsSome(result.audioFeatures)
   THEN {<<"audio", Weighted(AudioScore(Val(result.audioFeatures)), WeightAudio),
           WeightAudio, Val(result.audioFeatures).audioQualityScore>>} ELSE {})
  \cup
  (IF IsSome(result.speakerInfo)
   THEN {<<"speaker", Weighted(Val(result.speakerInfo).fraudProbability, WeightSpeaker),
           WeightSpeaker, Val(result.speakerInfo).avgConfidence>>} ELSE {})
  \cup
  (IF IsSome(result.metadata)
   THEN {<<"context", Weighted(ContextScore(Val(result.metadata)), WeightContext),
           WeightContext, Val(result.metadata).qualityIndicators.audioIntegrity>>}
   ELSE {})

\* the sum of the i-th component over a set of signals
RECURSIVE SumOver(_, _)
SumOver(signals, i) ==
  IF signals = {} THEN 0
  ELSE LET s == CHOOSE x \in signals : TRUE
       IN Add(s[i], SumOver(signals \ {s}, i))

\* C8: the base probability of a chunk is the sum of score x weight over
\* the signals present divided by the sum of their weights (text 0.35,
\* audio 0.25, speaker 0.2, context 0.2), and 0 when none is present; a
\* chunk without a transcript or with a sub-analysis disabled still gets a
\* result, and the absent signal adds to neither sum.
C8_BaseProbabilityIsWeightedMean ==
  \A p \in Pipelines :
    (Called(p) /\ isRunning(p)) =>
      /\ Returned(p)
      /\ LET signals == Signals(Result)
             totalWeight == SumOver(signals, 3)
         IN Fusion.probability =
              IF signals = {} THEN 0
              ELSE DivN(SumOver(signals, 2), totalWeight)

\* a chunk without transcript: the audio, speaker and context signals alone
\* give a positive base probability
C8_Witness ==
  \E p \in Pipelines :
    /\ Returned(p)
    /\ {s[1] : s \in Signals(Result)} = {"audio", "speaker", "context"}
    /\ Fusion.probability > 0

\* C9: confidenceScore is the mean of the confidence contributions of the k
\* signals present (text 0.9, audio audioQualityScore, speaker
\* avgConfidence, metadata audioIntegrity), 1 <= k <= 4: their sum
\* divided by k.
C9_ConfidenceIsMeanOfPresent ==
  \A p \in Pipelines :
    (Returned(p) /\ Signals(Result) # {}) =>
      Result.confidenceScore =
        DivN(SumOver(Signals(Result), 4), Cardinality(Signals(Result)))

\* C10: the riskLevel of a result is decided by its fraudProbability:
\* 'blocked' iff >= 0.8, 'warning' iff >= 0.5 and < 0.8, 'safe' iff < 0.5.
C10_RiskLevelByThresholds ==
  \A p \in Pipelines :
    Returned(p) =>
      LET probability == Result.fraudProbability
      IN /\ Result.riskLevel = "blocked" <=> Ge(probability, 800)
         /\ Result.riskLevel = "warning" <=> (Ge(probability, 500) /\ Lt(probability, 800))
         /\ Result.riskLevel = "safe" <=> Lt(probability, 500)

(* ------------------------------- alerts ------------------------------- *)
\* C11: a processed chunk invokes the onResult listeners once, and invokes
\* the onAlert listeners and adds exactly one to alertsTriggered if and only
\* if its fraudProbability is >= the pipeline's fraudThreshold (0.7 by
\* default), whatever its riskLevel; no other step changes alertsTriggered
\* but a reset() or start(), which zeroes it: so alertsTriggered is the
\* number of results since the last reset that reached the threshold.
C11_AlertIffThreshold ==
  [][\A p \in Pipelines :
       /\ Returned(p)' =>
            /\ ret'.onResult = 1
            /\ ret'.onAlert = 1 <=> Ge(Result'.fraudProbability, config[p].fraudThreshold)
            /\ ret'.onAlert \in {0, 1}
            /\ getStats(p)'.alertsTriggered = getStats(p).alertsTriggered + ret'.onAlert
       /\ ~Returned(p)' =>
            getStats(p)'.alertsTriggered =
              IF Reset(p) \/ Start(p) THEN 0 ELSE getStats(p).alertsTriggered]_vars

\* a second alert in a row, on a result whose riskLevel is 'safe'
C11_Witness ==
  \E p \in Pipelines :
    /\ Returned(p)
    /\ ret.onAlert = 1
    /\ Result.riskLevel = "safe"
    /\ getStats(p).alertsTriggered = 2

(* ----------------------------- statistics ----------------------------- *)
\* the larger of the peak so far and a result's fraudProbability (a
\* fraudProbability that is no number leaves the peak as it is)
PeakWith(peak, fraudProbability) ==
  IF Gt(fraudProbability, peak) THEN fraudProbability ELSE peak

\* C12: getStats().peakFraudProbability is the maximum fraudProbability of
\* the results produced since the last reset, 0 if there are none: a
\* reset() or start() of the pipeline sets it to 0, and a result of the
\* pipeline raises it to the result's fraudProbability when that is larger
\* and leaves it otherwise.
C12_PeakIsMaxOfResults ==
  [][\A p \in Pipelines :
       /\ Returned(p)' =>
            getStats(p)'.peakFraudProbability =
              PeakWith(getStats(p).peakFraudProbability, Result'.fraudProbability)
       /\ (Reset(p) \/ Start(p)) => getStats(p)'.peakFraudProbability = 0]_vars

(* ------------------- the diarization engine on its own ------------------ *)
MaxSegments == 3

\* the segments fed: no samples, silence or speech, each with a pitch draw
\* and with or without a transcript
SegmentInputs ==
  {EmptyBuf, SilenceBuf, CalmBuf, StressedBuf} \X PitchDraws
    \X {NoTranscript, BankText}

\* identifySpeaker calls handleSpeakerChange, and with it the speaker-change
\* listeners, for a new profile and for a best match that is not the
\* current speaker
SpeakerChanged(d, bestMatch) == bestMatch = 0 \/ d.currentSpeaker # bestMatch

\* what a processSegment call did, next to the engine's new state: the
\* features it extracted, the speaker id of the segment it returned and
\* whether it called the speaker-change listeners
SegmentCall(d, features, t) ==
  [features |-> features, transcript |-> t.present,
   speakerId |-> identifySpeaker(d, features)[2],
   speakerChange |-> SpeakerChanged(d, BestMatch(d.speakers, features, Len(d.speakers))[1])]

\* speakerDiarization.processSegment, called on the exported engine with the
\* next 2.5 s of audio
ProcessSegment ==
  /\ chunksFed < MaxSegments
  /\ chunksFed' = chunksFed + 1
  /\ \E input \in SegmentInputs :
       /\ diarization' = processSegment(diarization, input[1], chunksFed * ChunkDurationMs,
                                        (chunksFed + 1) * ChunkDurationMs, input[3],
                                        input[2])[1]
       /\ probe' = Some(SegmentCall(diarization,
                                    extractSpeakerFeatures(input[1], input[2]), input[3]))
  /\ ret' = NoCall
  /\ UNCHANGED <<config, pipe, context, metadataFeed, previousSpectrum, now, started,
                 inFlight>>

\* speakerDiarization.reset
ResetEngine ==
  /\ diarization' = FreshDiarization
  /\ probe' = None
  /\ ret' = NoCall
  /\ UNCHANGED <<config, pipe, context, metadataFeed, previousSpectrum, now, started,
                 chunksFed, inFlight>>

NextSegments == ProcessSegment \/ ResetEngine

SpecSegments == Init /\ [][NextSegments]_vars

(* -------------------- the context tracker on its own -------------------- *)
RampChunks == 10

\* energy ramps: the energy level of the first chunk and its change from one
\* chunk to the next; every chunk's level stays within [0, 1]
Ramps ==
  {ramp \in [energy : {0, 100, 1000}, rate : {-100, 10, 50, 100}] :
     ramp.energy + (RampChunks - 1) * ramp.rate \in 0..1000}

\* the audio features of chunk n of a ramp: energy on the ramp, the other
\* three the same for every chunk
RampFeatures(ramp, n) ==
  [pitchVariance |-> 100, energyLevel |-> ramp.energy + n * ramp.rate,
   speechRate |-> 200, voiceStress |-> 200]

InitRamp == Constructed /\ probe \in Ramps

\* contextTracker.processChunk, called with the next chunk of the ramp and
\* no transcript
FeedRamp ==
  /\ chunksFed < RampChunks
  /\ chunksFed' = chunksFed + 1
  /\ context' = contextProcessChunk(context, NoTranscript, ChunkDurationMs,
                                     Some(RampFeatures(probe, chunksFed)), now)[1]
  /\ ret' = NoCall
  /\ UNCHANGED <<config, pipe, diarization, metadataFeed, previousSpectrum, now, started,
                 inFlight, probe>>

SpecRamp == InitRamp /\ [][FeedRamp]_vars

(* -------------------- the text extractor on its own --------------------- *)
\* texts of 30 words by what the patterns find in them: none, two or four
\* of the authority patterns, none or three of the urgency patterns, none or
\* all six of the threat patterns, none, one or both of the 'financial' and
\* of the 'access' PII patterns, up to four harassment matches, the bigram
\* 'gift card' or none
TextInputs ==
  {[GreetingText EXCEPT !.name = "synthetic", !.words = 30, !.sentences = 3,
                        !.sentenceWords = <<10, 10, 10>>,
                        !.authorityMatches = counts[1], !.urgencyMatches = counts[2],
                        !.threatMatches = counts[3], !.piiFinancial = counts[4],
                        !.piiAccess = counts[5], !.cyberMatches = counts[6],
                        !.bigramMax = counts[7]] :
     counts \in {0, 2, 4} \X {0, 3} \X {0, 6} \X {0, 1, 2} \X {0, 1, 2} \X {0, 1, 2, 4}
                \X {0, 950}}

InitText == Constructed /\ probe \in [text : TextInputs, features : {None}]

\* textFeatureExtractor.extract, called with the text
Extract ==
  /\ probe.features = None
  /\ probe' = [probe EXCEPT !.features = Some(extractText(probe.text))]
  /\ ret' = NoCall
  /\ UNCHANGED <<config, pipe, context, diarization, metadataFeed, previousSpectrum, now,
                 started, chunksFed, inFlight>>

SpecText == InitText /\ [][Extract]_vars

(* ------------------- the trackers fed past their caps ------------------- *)
HistoryChunks == 102

\* the audio of chunk n: calm speech, loud speech and silence in turn
HistoryBuffers == <<CalmBuf, StressedBuf, SilenceBuf>>

\* contextTracker.processChunk and contextualMetadataFeed.processAudioChunk,
\* called with the next chunk, one chunk duration after the last: its
\* features on the ramp, its audio in turn
FeedHistory ==
  /\ chunksFed < HistoryChunks
  /\ chunksFed' = chunksFed + 1
  /\ context' = contextProcessChunk(context, NoTranscript, ChunkDurationMs,
                                     Some(RampFeatures(probe, chunksFed % RampChunks)), now)[1]
  /\ metadataFeed' = processAudioChunk(metadataFeed, HistoryBuffers[(chunksFed % 3) + 1], now)
  /\ now' = now + ChunkDurationMs
  /\ ret' = NoCall
  /\ UNCHANGED <<config, pipe, diarization, previousSpectrum, started, inFlight, probe>>

SpecHistory == InitRamp /\ [][FeedHistory]_vars

(* ------------------------------ atomicity ------------------------------ *)
\* C13: processChunk runs to completion as one uninterrupted step: once a
\* call has updated the trackers and is delivering its result, the next thing
\* that takes effect is that call's own return, and no start, stop or reset,
\* also none called from inside one of its result listeners
C13_RunsToCompletion ==
  [][IsSome(inFlight) =>
       /\ inFlight' = None
       /\ Returned(Val(inFlight).pipeline)'
       /\ context' = context /\ diarization' = diarization /\ metadataFeed' = metadataFeed]_vars

(* ---------------------------- short buffers ---------------------------- *)
\* the shortest analysis frame of the extractor, in samples
ShortestFrame == 256

\* a number that is neither NaN nor infinite
Defined(x) == ~IsNaN(x) /\ x # NegInf

\* C14: processChunk on an active pipeline with an empty or too-short buffer
\* (fewer samples than one analysis frame) returns a result in which
\* fraudProbability, confidenceScore and every acoustic feature are defined
\* numbers, never NaN or infinite.
C14_ShortBufferDefined ==
  \A p \in Pipelines :
    (Returned(p) /\ ret.chunk[1].len < ShortestFrame) =>
      /\ Defined(Result.fraudProbability)
      /\ Defined(Result.confidenceScore)
      /\ IsSome(Result.audioFeatures) =>
            \A n \in AcousticFeatureNames : Defined(Val(Result.audioFeatures)[n])

(* ------------------------------- silence ------------------------------- *)
\* a buffer with samples, all of them zero
AllZero(a) == a.len > 0 /\ a.maxAmp = 0

EnergyPitchStressNames ==
  {"energyMean", "energyVariance", "energySpikes", "energyDynamicRange",
   "pitchMean", "pitchVariance", "pitchRange", "pitchSlope",
   "voiceStress", "jitter", "shimmer", "overallStressScore"}

\* C15: for a chunk whose samples are all zero, extract() returns zero for
\* every energy, pitch and stress feature (voiceStress, jitter, shimmer and
\* overallStressScore among them) and backgroundNoiseType 'clean'.
C15_SilenceIsAllZero ==
  \A p \in Pipelines :
    (Returned(p) /\ AllZero(ret.chunk[1]) /\ IsSome(Result.audioFeatures)) =>
      /\ \A n \in EnergyPitchStressNames : Val(Result.audioFeatures)[n] = 0
      /\ Val(Result.audioFeatures).backgroundNoiseType = "clean"

(* ------------------------------ IRS script ----------------------------- *)
\* C16: 'This is the IRS. Pay immediately with a gift card or face arrest.'
\* yields an authority match, an urgency match and the 'gift card' bigram
\* (0.95), textFraudScore >= 0.7 and, fused with neutral audio under the
\* default weights, riskLevel 'blocked'.
C16_IrsScriptIsBlocked ==
  \A p \in Pipelines :
    (Returned(p) /\ ret.chunk[2] = IrsText /\ IsSome(Result.textFeatures)) =>
      /\ Val(Result.textFeatures).authorityScore > 0
      /\ Val(Result.textFeatures).urgencyScore > 0
      /\ Val(Result.textFeatures).bigramThreatScore = 950
      /\ Val(Result.textFeatures).textFraudScore >= 700
      /\ (ret.chunk[1] = CalmBuf /\ config[p] = DefaultConfig) => Result.riskLevel = "blocked"

(* ------------------------------- speakers ------------------------------ *)
\* the segment that the last processSegment call pushed
LastSegment(d) ==
  d.speakers[d.currentSpeaker].segments[Len(d.speakers[d.currentSpeaker].segments)]

\* C17: when a segment's similarity to the speaker assigned to the segment
\* before it exceeds 0.6, it resolves to that same speaker and no speaker
\* change happens (the current speaker and every turn count stay), whatever
\* other profiles the roster holds.
C17_MatchingSegmentKeepsSpeaker ==
  [][(/\ ProcessSegment
      /\ diarization.currentSpeaker # 0
      /\ Gt(calculateSimilarity(LastSegment(diarization'),
                                diarization.speakers[diarization.currentSpeaker]), 600))
       => /\ diarization'.currentSpeaker = diarization.currentSpeaker
          /\ Len(diarization'.speakers) = Len(diarization.speakers)
          /\ \A n \in 1..Len(diarization.speakers) :
               diarization'.speakers[n].turnCount = diarization.speakers[n].turnCount]_vars

(* -------------------------------- trend -------------------------------- *)
\* C18: after 10 chunks whose energy level increases linearly from chunk
\* to chunk, the other acoustic dimensions equal, getEmotionalTrend() is
\* 'escalating', for every positive rate of increase.
C18_RampIsEscalating ==
  (chunksFed = RampChunks /\ probe.rate > 0) => getEmotionalTrend(context) = "escalating"

(* ------------------------------ text score ----------------------------- *)
\* the features that the last extract call returned
Extracted == Val(probe.features)

\* a score times a factor in thousandths, clamped to 1
Scaled(score, factor) == IF (score * factor) \div 1000 > 1000 THEN 1000 ELSE (score * factor) \div 1000

\* the number of high-risk signals among authority, urgency, PII, bigram and
\* harassment
RiskSignals(f) ==
  Cardinality({n \in {"authorityScore", "urgencyScore", "piiRequestScore"} : f[n] > 500}
              \cup {n \in {"bigramThreatScore"} : f[n] > 700}
              \cup {n \in {"cyberbullyingScore"} : f[n] > 300})

\* 1. the weighted sum
SumStep(f) ==
  (120 * f.authorityScore + 120 * f.urgencyScore + 150 * f.threatDensity
   + 200 * f.piiRequestScore + 50 * f.imperativeFrequency + 80 * f.bigramThreatScore
   + 80 * f.trigramPatternScore + 200 * f.cyberbullyingScore) \div 1000
\* 2. x1.3 for two signals
TwoStep(f, score) == IF RiskSignals(f) >= 2 THEN Scaled(score, 1300) ELSE score
\* 3. a further x1.2 for three signals
ThreeStep(f, score) == IF RiskSignals(f) >= 3 THEN Scaled(score, 1200) ELSE score
\* 4. the harassment floor
FloorStep(f, score) == IF f.cyberbullyingScore > 500 /\ score < 700 THEN 700 ELSE score

\* C19: textFraudScore is the weighted sum of the eight features, then x1.3
\* clamped to 1 for two or more high-risk signals, then a further x1.2
\* clamped to 1 for three or more, then raised to 0.7 when harassment
\* exceeds 0.5; it lies in [0,1] and is at least 0.7 whenever harassment
\* exceeds 0.5.
C19_TextScoreOrder ==
  IsSome(probe.features) =>
    /\ Extracted.textFraudScore =
         FloorStep(Extracted, ThreeStep(Extracted, TwoStep(Extracted, SumStep(Extracted))))
    /\ InUnit(Extracted.textFraudScore)
    /\ Extracted.cyberbullyingScore > 500 => Extracted.textFraudScore >= 700

\* a text with three high-risk signals and harassment above 0.5 whose score,
\* boosted twice, is still below 0.7 and is raised to it
C19_Witness ==
  /\ IsSome(probe.features)
  /\ RiskSignals(Extracted) >= 3
  /\ Extracted.cyberbullyingScore > 500
  /\ Scaled(Scaled(SumStep(Extracted), 1300), 1200) < 700
  /\ Extracted.textFraudScore = 700

(* ---------------------------- PII request score ------------------------ *)
\* C20: piiRequestScore is 0.25 times the number of PII subtypes the text
\* matches, capped at 1: a text that matches exactly one subtype scores 0.25
\* however many of that subtype's patterns it matches.
C20_PiiScorePerSubtype ==
  IsSome(probe.features) =>
    Extracted.piiRequestScore = MathMin(1000, 250 * Cardinality(Extracted.piiTypes))

(* --------------------------- speaker resolution ------------------------ *)
\* the last processSegment call
Call == Val(probe)

\* the similarity of the call's segment to profile n of the roster d
SimilarityTo(d, call, n) == calculateSimilarity(call.features, d.speakers[n])

\* the profiles of d that the call's segment matches: similarity above 0.6
Matching(d, call) == {n \in 1..Len(d.speakers) : Gt(SimilarityTo(d, call, n), 600)}

\* C21: processSegment resolves a segment to the existing profile with the
\* highest similarity provided that similarity exceeds 0.6, and otherwise
\* creates a new profile and resolves to it; the speaker-change listeners are
\* called if and only if the resolved id differs from the speaker that was
\* current before the segment (none, for the first segment after a reset),
\* and after the segment the current speaker is the resolved id.
C21_BestMatchOrNewProfile ==
  [][ProcessSegment =>
       /\ Matching(diarization, Call') # {} =>
            /\ Call'.speakerId \in Matching(diarization, Call')
            /\ \A n \in Matching(diarization, Call') :
                 SimilarityTo(diarization, Call', n)
                   <= SimilarityTo(diarization, Call', Call'.speakerId)
            /\ Len(diarization'.speakers) = Len(diarization.speakers)
       /\ Matching(diarization, Call') = {} =>
            /\ Call'.speakerId = Len(diarization.speakers) + 1
            /\ Len(diarization'.speakers) = Len(diarization.speakers) + 1
       /\ Call'.speakerChange <=> Call'.speakerId # diarization.currentSpeaker
       /\ diarization'.currentSpeaker = Call'.speakerId]_vars

\* a segment that matched two profiles, resolved to the first speaker while
\* the second was current, and called the listeners
C21_Witness ==
  /\ IsSome(probe)
  /\ Len(diarization.speakers) = 2
  /\ Call.speakerId = 1
  /\ Call.speakerChange
  /\ diarization.speakers[1].turnCount = 1
  /\ Len(diarization.speakers[1].segments) = 2
  /\ Len(diarization.speakers[2].segments) = 1
  /\ Gt(calculateSimilarity(Call.features, diarization.speakers[2]), 600)

(* ------------------------ speaker fraud probability -------------------- *)
\* the fraud probability of profile n in the roster d: 0 for a profile that
\* does not exist yet
FraudProbabilityOf(d, n) == IF n <= Len(d.speakers) THEN d.speakers[n].fraudProbability ELSE 0

\* C22: for a segment with a transcript the resolved profile's
\* fraudProbability becomes 0.7 x its previous value + 0.3 x a segment score
\* of [0,1]; for a segment without a transcript it is unchanged; the
\* fraudProbability of every other profile is unchanged; every profile's
\* fraudProbability starts at 0 and stays in [0,1].
C22_FraudProbabilityIsMovingAverage ==
  [][ProcessSegment =>
       /\ Call'.transcript =>
            \E score \in 0..1000 :
              FraudProbabilityOf(diarization', Call'.speakerId) =
                (FraudProbabilityOf(diarization, Call'.speakerId) * 700) \div 1000
                + (score * 300) \div 1000
       /\ ~Call'.transcript =>
            FraudProbabilityOf(diarization', Call'.speakerId) =
              FraudProbabilityOf(diarization, Call'.speakerId)
       /\ \A n \in 1..Len(diarization'.speakers) :
            /\ n # Call'.speakerId =>
                 FraudProbabilityOf(diarization', n) = FraudProbabilityOf(diarization, n)
            /\ InUnit(FraudProbabilityOf(diarization', n))]_vars

\* a second transcript on the same speaker, whose probability has moved
\* twice, next to another speaker whose probability has not moved
C22_Witness ==
  /\ IsSome(probe)
  /\ Call.transcript
  /\ Len(diarization.speakers) = 2
  /\ Len(diarization.speakers[Call.speakerId].segments) = 2
  /\ FraudProbabilityOf(diarization, Call.speakerId) > 300
  /\ FraudProbabilityOf(diarization, 3 - Call.speakerId) = 0

(* ---------------------------- capped histories ------------------------- *)
\* history h2 is history h with one entry pushed and, over the cap, the
\* oldest entry dropped
KeepsLatest(h, h2, cap) ==
  IF Len(h) < cap
  THEN Len(h2) = Len(h) + 1 /\ SubSeq(h2, 1, Len(h)) = h
  ELSE Len(h2) = cap /\ SubSeq(h2, 1, cap - 1) = SubSeq(h, 2, cap)

FedChannels == {"noise", "amplitude", "stress", "quality"}

\* C23: every capped history keeps its most recent entries and evicts the
\* oldest first: with every chunk the emotional-state history takes the new
\* state at its end and, beyond 50 entries, loses its first one; each
\* metadata channel does the same beyond 100 entries; neither ever holds
\* more than its cap.
C23_HistoriesKeepLatest ==
  [][FeedHistory =>
       /\ KeepsLatest(context.emotionalProgression, context'.emotionalProgression,
                      EmotionHistory)
       /\ context'.emotionalProgression[Len(context'.emotionalProgression)]
            = EmotionalStateOf(RampFeatures(probe, chunksFed % RampChunks), now)
       /\ \A c \in FedChannels : KeepsLatest(metadataFeed[c], metadataFeed'[c], ChannelHistory)
       /\ Len(context'.emotionalProgression) <= EmotionHistory
       /\ \A c \in FedChannels \cup {"confidence"} : Len(metadataFeed'[c]) <= ChannelHistory]_vars

\* both caps were passed: the emotional history starts with the state of
\* the chunk fed 50 chunks ago, the channels hold 100 entries whose first
\* is that of the second chunk
C23_Witness ==
  /\ chunksFed = ChannelHistory + 1
  /\ Len(context.emotionalProgression) = EmotionHistory
  /\ context.emotionalProgression[1]
       = EmotionalStateOf(RampFeatures(probe, (chunksFed - EmotionHistory) % RampChunks),
                          now - EmotionHistory * ChunkDurationMs)
  /\ Len(metadataFeed.amplitude) = ChannelHistory
  /\ metadataFeed.amplitude[1] = calculateAmplitude(StressedBuf)
  /\ metadataFeed.amplitude[ChannelHistory] = calculateAmplitude(StressedBuf)

(* ----------------------------- stress markers -------------------------- *)
\* C24: the stress-marker list is a 5-second trailing window: every marker
\* in the list that getAggregatedMetadata() returns has a timestamp less
\* than 5 seconds before the time of the query, also when no marker was
\* inserted since older markers were recorded.
C24_MarkersWithinWindow ==
  \A i \in 1..Len(getAggregatedMetadata(metadataFeed).stressMarkers) :
    now - getAggregatedMetadata(metadataFeed).stressMarkers[i].timestamp < MarkerWindowMs

(* ----------------------------- emotional trend ------------------------- *)
\* the last n entries of a history, all of it when it is shorter
Latest(h, n) == SubSeq(h, IF Len(h) > n THEN Len(h) - n + 1 ELSE 1, Len(h))
\* its first n entries, all of it when it is shorter
Earliest(h, n) == SubSeq(h, 1, IF Len(h) > n THEN n ELSE Len(h))

\* the mean arousal of a non-empty list of emotional states
MeanArousal(states) == SumArousal(states) \div Len(states)

\* the trend by the mean arousal of the earliest 5 and of the latest 5 of
\* the states given
TrendByMeans(recent) ==
  IF Len(recent) < 2 THEN "stable"
  ELSE IF MeanArousal(Latest(recent, 5)) - MeanArousal(Earliest(recent, 5)) > 150
       THEN "escalating"
  ELSE IF MeanArousal(Earliest(recent, 5)) - MeanArousal(Latest(recent, 5)) > 150
       THEN "de-escalating"
  ELSE "stable"

\* C25 as stated: the two averages getEmotionalTrend() compares are the
\* true means of the earliest 5 and of the latest 5 of the last 10
\* emotional states, also when fewer than 10 states exist.
C25_AveragesAreTrueMeans ==
  Len(context.emotionalProgression) >= 2 =>
    ArousalAverages(Latest(context.emotionalProgression, 10))
      = <<MeanArousal(Earliest(Latest(context.emotionalProgression, 10), 5)),
          MeanArousal(Latest(context.emotionalProgression, 5))>>

\* C25: getEmotionalTrend() answers as a comparison of the mean arousal of
\* the earliest 5 with that of the latest 5 of the last 10 emotional states
\* would: 'escalating' iff late mean - early mean > 0.15, 'de-escalating'
\* iff early mean - late mean > 0.15, 'stable' otherwise and whenever fewer
\* than 2 states exist; with fewer than 5 states its two averages are not
\* true means (each sum is divided by 5) but they are equal, as the true
\* means are.
C25_TrendByMeans ==
  getEmotionalTrend(context) = TrendByMeans(Latest(context.emotionalProgression, 10))

\* ten states of falling energy: 'de-escalating'
C25_Witness ==
  /\ chunksFed = RampChunks
  /\ Len(context.emotionalProgression) = 10
  /\ probe.rate < 0
  /\ getEmotionalTrend(context) = "de-escalating"

(* ------------------ the context tracker fed transcripts ----------------- *)
MaxTranscripts == 4

\* "Hello. How are you": a sentence of one word and one of three
HelloText == [GreetingText EXCEPT !.name = "hello", !.sentences = 2, !.sentenceWords = <<1, 3>>]

TopicInputs == Transcripts \cup {HelloText}

\* contextTracker.processChunk, called with a transcript and no audio
\* features; probe records the call and the topic shift its listeners got
FeedTranscript ==
  /\ chunksFed < MaxTranscripts
  /\ chunksFed' = chunksFed + 1
  /\ \E t \in TopicInputs :
       /\ context' = contextProcessChunk(context, t, ChunkDurationMs, None, now)[1]
       /\ probe' = Some([transcript |-> t,
                         shift |-> contextProcessChunk(context, t, ChunkDurationMs, None, now)[2]])
  /\ ret' = NoCall
  /\ UNCHANGED <<config, pipe, diarization, metadataFeed, previousSpectrum, now, started,
                 inFlight>>

\* contextTracker.reset
ResetTracker ==
  /\ context' = FreshContext(now)
  /\ probe' = None
  /\ ret' = NoCall
  /\ UNCHANGED <<config, pipe, diarization, metadataFeed, previousSpectrum, now, started,
                 chunksFed, inFlight>>

NextTopics == FeedTranscript \/ ResetTracker

SpecTopics == Init /\ [][NextTopics]_vars

(* -------------------------------- topics ------------------------------- *)
ListedTopics == <<"financial", "identity", "urgency", "authority", "technical",
                  "prize_scam", "romance", "investment">>

\* the first listed category a transcript matches, "none" without a match
FirstListed(t) ==
  IF \E i \in 1..Len(ListedTopics) : ListedTopics[i] \in t.topicMatches
  THEN ListedTopics[CHOOSE i \in 1..Len(ListedTopics) :
                      /\ ListedTopics[i] \in t.topicMatches
                      /\ \A j \in 1..(i - 1) : ListedTopics[j] \notin t.topicMatches]
  ELSE "none"

\* never two equal adjacent entries, and currentTopic is the last entry
\* (null iff there is none)
TopicsWellFormed(c) ==
  /\ \A i \in 1..(Len(c.topicHistory) - 1) : c.topicHistory[i] # c.topicHistory[i + 1]
  /\ \A i \in 1..Len(c.topicHistory) : c.topicHistory[i] # "none"
  /\ c.currentTopic = (IF c.topicHistory = <<>> THEN "none"
                       ELSE c.topicHistory[Len(c.topicHistory)])

\* one processChunk from tracker state c to c2
TopicStep(c, c2, call) ==
  /\ IsSome(call.shift) <=> (/\ call.transcript.present
                             /\ FirstListed(call.transcript) # "none"
                             /\ FirstListed(call.transcript) # c.currentTopic)
  /\ IsSome(call.shift) =>
       /\ Val(call.shift).fromTopic = c.currentTopic
       /\ Val(call.shift).toTopic = FirstListed(call.transcript)
       /\ c2.topicHistory = Append(c.topicHistory, FirstListed(call.transcript))
       /\ c2.currentTopic = FirstListed(call.transcript)
  /\ ~IsSome(call.shift) =>
       /\ c2.topicHistory = c.topicHistory
       /\ c2.currentTopic = c.currentTopic

\* C26: a topic-shift event is emitted for a chunk exactly when the first
\* matching category of its transcript, in the order financial, identity,
\* urgency, authority, technical, prize_scam, romance, investment, exists
\* and differs from currentTopic; on emission that topic is appended to
\* topicHistory and becomes currentTopic, otherwise both are unchanged.
\* topicHistory only grows between resets, never holds two equal adjacent
\* entries, and currentTopic is its last entry (null iff it is empty).
C26_TopicShiftOnFirstMatch ==
  [][/\ TopicsWellFormed(context) /\ TopicsWellFormed(context')
     /\ FeedTranscript => TopicStep(context, context', Val(probe'))
     /\ ResetTracker => context'.topicHistory = <<>>]_vars

\* a transcript matching financial, urgency and technical shifts the topic
\* from urgency to financial, and the same transcript again shifts nothing
C26_Witness ==
  /\ context.topicHistory = <<"urgency", "financial">>
  /\ IsSome(probe)
  /\ Val(probe).transcript = BankText
  /\ ~IsSome(Val(probe).shift)

(* -------------------------- linguistic continuity ----------------------- *)
\* 1 for a sentence of 3 to 20 tokens, 0.5 for any other non-empty one
SentenceScore(tokens) == IF tokens \in 3..20 THEN 1000 ELSE IF tokens > 0 THEN 500 ELSE 0

\* the sum of the scores of the first n sentences
RECURSIVE ScoreSum(_, _)
ScoreSum(sentenceWords, n) ==
  IF n = 0 THEN 0 ELSE ScoreSum(sentenceWords, n - 1) + SentenceScore(sentenceWords[n])

\* the score the tracker must show after a chunk with transcript t
ContinuityAfter(t) ==
  IF ~t.present \/ t.sentenceWords = <<>> THEN 500
  ELSE ScoreSum(t.sentenceWords, Len(t.sentenceWords)) \div Len(t.sentenceWords)

\* C27: after a chunk with an empty transcript is processed the
\* linguistic-continuity score is the default 0.5, whatever it was before;
\* after a chunk with a non-empty transcript it is the per-sentence average
\* (1 for sentences of 3 to 20 tokens, 0.5 for shorter non-empty ones) and
\* lies in [0, 1].
C27_ContinuityAfterChunk ==
  [][FeedTranscript =>
       /\ context'.linguisticContinuity = ContinuityAfter(Val(probe').transcript)
       /\ InUnit(context'.linguisticContinuity)]_vars

(* --------------------------- speaker profiles --------------------------- *)
\* the number of segments held by the first n profiles
RECURSIVE SegmentsHeld(_, _)
SegmentsHeld(d, n) ==
  IF n = 0 THEN 0 ELSE SegmentsHeld(d, n - 1) + Len(d.speakers[n].segments)

\* the ids of the profiles are speaker_1 .. speaker_n, in the order created
IdsInOrder(d) == \A n \in 1..Len(d.speakers) : d.speakers[n].id = n

\* one processSegment from engine state d to d2, resolved to profile id:
\* no profile is removed or renamed, at most one is added, the segment is
\* appended to the resolved profile and to no other
SegmentStep(d, d2, id, startTime) ==
  /\ Len(d2.speakers) \in {Len(d.speakers), Len(d.speakers) + 1}
  /\ id \in 1..Len(d2.speakers)
  /\ \A n \in 1..Len(d.speakers) : d2.speakers[n].id = d.speakers[n].id
  /\ \A n \in 1..Len(d2.speakers) :
       d2.speakers[n].segments
         = IF n = id
           THEN Append(IF n <= Len(d.speakers) THEN d.speakers[n].segments ELSE <<>>,
                       d2.speakers[n].segments[Len(d2.speakers[n].segments)])
           ELSE IF n <= Len(d.speakers) THEN d.speakers[n].segments ELSE <<>>
  /\ d2.speakers[id].segments[Len(d2.speakers[id].segments)].startTime = startTime
  /\ d2.speakers[id].segments[Len(d2.speakers[id].segments)].speakerId = id
  /\ SegmentsHeld(d2, Len(d2.speakers)) = SegmentsHeld(d, Len(d.speakers)) + 1

\* C28: between resets speaker profiles are only ever added: the ids of n
\* profiles are exactly speaker_1 .. speaker_n with no duplicate and none
\* removed, every processed segment is appended to exactly one profile, the
\* one it resolved to, and the total number of segments over all profiles
\* grows by one with every processSegment call and is 0 after a reset.
C28_ProfilesOnlyGrow ==
  [][/\ IdsInOrder(diarization) /\ IdsInOrder(diarization')
     /\ ProcessSegment =>
          SegmentStep(diarization, diarization', Val(probe').speakerId,
                      chunksFed * ChunkDurationMs)
     /\ ResetEngine => SegmentsHeld(diarization', Len(diarization'.speakers)) = 0]_vars

\* three segments processed, held by two profiles
C28_Witness ==
  /\ IsSome(probe)
  /\ Len(diarization.speakers) = 2
  /\ Len(diarization.speakers[1].segments) = 2
  /\ Len(diarization.speakers[2].segments) = 1
  /\ SegmentsHeld(diarization, 2) = 3

(* --------------------------- order of the events ------------------------ *)
\* what the result listeners of a call find: the statistics before the call
\* (stats) and as the listeners read them (seen), for the result delivered
\* and the roster of the diarization engine by then
SeenByResultListener(stats, seen, result, speakers) ==
  /\ seen.totalChunksProcessed = stats.totalChunksProcessed + 1
  /\ seen.alertsTriggered = stats.alertsTriggered
  /\ ~Gt(result.fraudProbability, seen.peakFraudProbability)
  /\ Len(speakers) > 0 => seen.dominantSpeaker = Dominant(speakers, Len(speakers))

\* what the alert check after the result listeners does to the statistics
\* they left (stats), and which listeners the returned call has invoked
AlertAfterResult(stats, after, result, threshold, call) ==
  /\ after.alertsTriggered
       = stats.alertsTriggered + (IF Ge(result.fraudProbability, threshold) THEN 1 ELSE 0)
  /\ after.totalChunksProcessed = stats.totalChunksProcessed
  /\ call.onResult = 1
  /\ call.onAlert = (IF Ge(result.fraudProbability, threshold) THEN 1 ELSE 0)

\* C29: within one processChunk the statistics are updated
\* (totalChunksProcessed, peakFraudProbability, dominantSpeaker), then the
\* onResult listeners are invoked, then alertsTriggered is incremented, then
\* the onAlert listeners are invoked: an onResult listener reading getStats()
\* sees the chunk counted in totalChunksProcessed and not yet in
\* alertsTriggered, and the alert of a chunk comes after its result
\* listeners.
C29_StatsThenResultThenAlert ==
  [][\A p \in Pipelines :
       /\ (inFlight = None /\ IsSome(inFlight') /\ Val(inFlight').pipeline = p) =>
            SeenByResultListener(getStats(p), getStats(p)', Val(Val(inFlight').result),
                                 diarization'.speakers)
       /\ (IsSome(inFlight) /\ inFlight' = None /\ Val(inFlight).pipeline = p) =>
            /\ ret' = Val(inFlight)
            /\ AlertAfterResult(getStats(p), getStats(p)', Val(Val(inFlight).result),
                                config[p].fraudThreshold, ret')]_vars

\* the result listeners of a first chunk that raises an alert are running:
\* the chunk is counted, the alert is not
C29_Witness ==
  /\ IsSome(inFlight)
  /\ Val(inFlight).onAlert = 1
  /\ getStats(Val(inFlight).pipeline).totalChunksProcessed = 1
  /\ getStats(Val(inFlight).pipeline).alertsTriggered = 0

(* -------------------------------- chunk ids ----------------------------- *)
\* the latest segment of a speaker profile
LatestSegment(profile) == profile.segments[Len(profile.segments)]

\* a processChunk completed on a pipeline whose statistics were stats and
\* are now after
ChunkCounted(cfg, stats, after, result, conversation) ==
  /\ result.chunkId = stats.totalChunksProcessed
  /\ after.totalChunksProcessed = result.chunkId + 1
  /\ cfg.enableDiarization =>
       /\ LatestSegment(Val(result.speakerInfo)).startTime
            = result.chunkId * cfg.chunkDuration
       /\ LatestSegment(Val(result.speakerInfo)).endTime
            = (result.chunkId + 1) * cfg.chunkDuration
  /\ conversation.totalDuration = after.totalChunksProcessed * cfg.chunkDuration

\* C30: chunk ids are assigned in call order starting from 0 after every
\* start() or reset(): the k-th chunk processed since the last reset gets
\* chunkId k-1 and the speaker segment interval [chunkId x chunkDuration,
\* (chunkId+1) x chunkDuration], and after every completed processChunk
\* getStats().totalChunksProcessed equals the last chunkId + 1 and the
\* conversation's totalDuration equals totalChunksProcessed x chunkDuration.
C30_ChunkIdsInCallOrder ==
  [][\A p \in Pipelines :
       /\ (Start(p) \/ Reset(p)) =>
            /\ getStats(p)'.totalChunksProcessed = 0
            /\ getConversationState'.totalDuration = 0
       /\ (chunksFed' = chunksFed + 1 /\ Returned(p)') =>
            ChunkCounted(config[p], getStats(p), getStats(p)', Val(ret'.result),
                         getConversationState')]_vars

====
